---- MODULE Spec2Model ----
(***************************************************************************)
(* The client-side state store of the Neurogenetics curriculum: the        *)
(* progress table (lib/progress.ts) and the flag table (lib/flags.ts),     *)
(* both kept in localStorage as JSON text, and the derived metrics that    *)
(* read them.                                                              *)
(***************************************************************************)
EXTENDS Integers, Sequences, FiniteSets, TLC

(***************************************************************************)
(* Bounds of the model.                                                    *)
(***************************************************************************)
\* The clock (Date.now / new Date()) runs over 0..MaxTime.
MaxTime == 1
\* markSectionRead is called with the indices 0..MaxIndex.
MaxIndex == 1
\* SpecMark records at most MaxCalls markSectionRead calls.
MaxCalls == 4
\* SpecPercent: a module of up to MaxTotal sections, up to MaxTotal read.
MaxTotal == 40
\* SpecStats: up to MaxModules progress records and modules.
MaxModules == 40

(***************************************************************************)
(* IEEE-754 binary64 arithmetic, as far as the percentages need it.  A     *)
(* positive double is sig * 2^exp with a significand of 53 bits, written   *)
(* in base 2^13 as five limbs, the first of them 1; zero has no limbs.     *)
(* The operands are non-negative integers below 2^18.                      *)
(***************************************************************************)
RECURSIVE Pow2(_)
Pow2(n) == IF n = 0 THEN 1 ELSE 2 * Pow2(n - 1)

LimbBits == 13

Limb == Pow2(LimbBits)

\* The limbs after the leading 1 of a significand.
SigLimbs == 4

FZero == [sig |-> <<>>, exp |-> 0]

\* The number of binary digits of n.
RECURSIVE BitLen(_)
BitLen(n) == IF n = 0 THEN 0 ELSE 1 + BitLen(n \div 2)

\* The number written by a short list of limbs.
RECURSIVE LimbsToInt(_)
LimbsToInt(limbs) ==
    IF limbs = <<>> THEN 0
    ELSE Limb * LimbsToInt(SubSeq(limbs, 1, Len(limbs) - 1))
         + limbs[Len(limbs)]

\* limbs shifted right by t < 13 bits.
ShiftRightBits(limbs, t) ==
    [j \in 1..Len(limbs) |->
        limbs[j] \div Pow2(t)
        + (IF j > 1 THEN (limbs[j - 1] % Pow2(t)) * Pow2(LimbBits - t) ELSE 0)]

\* floor(limbs / 2^n) as an integer (below 2^31).
FloorShift(limbs, n) ==
    LET drop == n \div LimbBits
    IN  IF drop >= Len(limbs) THEN 0
        ELSE LimbsToInt(ShiftRightBits(SubSeq(limbs, 1, Len(limbs) - drop),
                                       n % LimbBits))

\* a/b scaled by a power of two so that b <= a < 2b: <<a, b, k>> with
\* a/b * 2^k the original quotient.
RECURSIVE Normalize(_, _, _)
Normalize(a, b, k) ==
    IF a < b THEN Normalize(2 * a, b, k - 1)
    ELSE IF a >= 2 * b THEN Normalize(a, 2 * b, k + 1)
    ELSE <<a, b, k>>

\* n more quotient limbs of r/b (r < b) by long division: <<limbs, remainder>>.
RECURSIVE DivLimbs(_, _, _)
DivLimbs(r, b, n) ==
    IF n = 0 THEN <<<<>>, r>>
    ELSE LET rest == DivLimbs((r * Limb) % b, b, n - 1)
         IN  <<(<<(r * Limb) \div b>> \o rest[1]), rest[2]>>

\* limbs + 1; the first limb takes the last carry.
RECURSIVE IncLimbs(_)
IncLimbs(limbs) ==
    LET front == SubSeq(limbs, 1, Len(limbs) - 1)
        last  == limbs[Len(limbs)]
    IN  IF Len(limbs) = 1 \/ last + 1 < Limb THEN Append(front, last + 1)
        ELSE Append(IncLimbs(front), 0)

\* The significand rounded up by one unit in the last place.
FRoundUp(sig, exp) ==
    LET inc == IncLimbs(sig)
    IN  IF inc[1] = 2
        THEN [sig |-> <<1>> \o SubSeq(inc, 2, Len(inc)), exp |-> exp + 1]
        ELSE [sig |-> inc, exp |-> exp]

\* The double nearest to a/b (ties to even), for integers a >= 0, b > 0:
\* the `/` of two integer-valued doubles.
FDiv(a, b) ==
    IF a = 0 THEN FZero
    ELSE LET n   == Normalize(a, b, 0)
             q   == DivLimbs(n[1] - n[2], n[2], SigLimbs)
             sig == <<1>> \o q[1]
             exp == n[3] - SigLimbs * LimbBits
             up  == \/ 2 * q[2] > n[2]
                    \/ 2 * q[2] = n[2] /\ sig[Len(sig)] % 2 = 1
         IN  IF up THEN FRoundUp(sig, exp) ELSE [sig |-> sig, exp |-> exp]

\* The limbs of the exact product of limbs and c; the first limb takes the
\* last carry.
RECURSIVE MulLimbs(_, _, _)
MulLimbs(limbs, c, carry) ==
    LET front == SubSeq(limbs, 1, Len(limbs) - 1)
        t     == limbs[Len(limbs)] * c + carry
    IN  IF Len(limbs) = 1 THEN <<t>>
        ELSE Append(MulLimbs(front, c, t \div Limb), t % Limb)

\* The double nearest to x * c (ties to even), c a positive integer below
\* 2^12: the `*` of a double and an integer-valued double.
FMul(x, c) ==
    IF x.sig = <<>> THEN FZero
    ELSE LET p       == MulLimbs(x.sig, c, 0)
             d       == BitLen(p[1]) - 1
             kept    == ShiftRightBits(p, d)
             dropped == p[Len(p)] % Pow2(d)
             up      == /\ d > 0
                        /\ \/ dropped > Pow2(d - 1)
                           \/ dropped = Pow2(d - 1) /\ kept[Len(kept)] % 2 = 1
         IN  IF up THEN FRoundUp(kept, x.exp + d)
             ELSE [sig |-> kept, exp |-> x.exp + d]

\* Math.round of a non-negative double below 2^30 that is not a whole
\* number of 2^53 or more: the nearest integer, a fraction of exactly one
\* half going up, which is floor((floor(2x) + 1) / 2).
MathRound(x) ==
    IF x.sig = <<>> THEN 0
    ELSE (FloorShift(x.sig, 0 - x.exp - 1) + 1) \div 2

(***************************************************************************)
(* The state: the browser's localStorage (one string per key, or no item), *)
(* and the wall clock read by new Date() and Date.now().  history,         *)
(* lastCall and prevCall record the calls made, for the properties below.  *)
(* window is `typeof window`; quotaExceeded says that localStorage.setItem *)
(* throws; thrown is the exception the last call let escape ("" for none) *)
(* and setItemCalls the number of localStorage.setItem calls it made;      *)
(* hooks holds the React state of the mounted useProgress / useFlags       *)
(* instances and of the FlaggableKeyPoint components.                      *)
(***************************************************************************)
VARIABLES localStorage, now, history, lastCall, prevCall,
          window, quotaExceeded, thrown, setItemCalls, hooks,
          manifests, slideViews, quiz, presenter

vars == <<localStorage, now, history, lastCall, prevCall,
          window, quotaExceeded, thrown, setItemCalls, hooks,
          manifests, slideViews, quiz, presenter>>

\* The manifest files the server holds and the components that keep no
\* store content: the slide presenter, the slide gallery and the quiz.
components == <<manifests, slideViews, quiz, presenter>>

\* The execution context and the views, which the store operations leave
\* alone.
context == <<window, quotaExceeded, hooks, components>>

STORAGE_KEY == "neurogenetics-progress"
FLAGS_KEY == "neurogenetics-flags"

\* localStorage.getItem of a key that was never set.
NoItem == [kind |-> "null", value |-> <<>>]

\* The JSON text of a value whose fields are all defined, and its parse.
JSONstringify(v) == [kind |-> "json", value |-> v]
JSONparse(s) == s.value

\* A stored text that JSON.parse throws a SyntaxError on, such as "not json".
BadText == [kind |-> "text", value |-> <<>>]

\* The value null, of which no property can be read.
JSNull == [null |-> TRUE]

\* The stored text "null": it parses, to null.
NullText == JSONstringify(JSNull)

\* v === null
IsNull(v) == \E k \in DOMAIN v : ToString(k) = ToString("null")

\* The exceptions: a property read of null, and a setItem over the quota.
TypeError == "TypeError"
QuotaExceededError == "QuotaExceededError"

\* A call completed by throwing e.
Threw(result, e) == ToString(result) = ToString(e)

\* {}: the object with no keys.
EmptyObject == <<>>

\* { ...a, ...b }
Spread(a, b) ==
    [k \in DOMAIN a \cup DOMAIN b |-> IF k \in DOMAIN b THEN b[k] ELSE a[k]]

\* obj[key] = v
Assign(obj, key, v) ==
    [k \in DOMAIN obj \cup {key} |-> IF k = key THEN v ELSE obj[k]]

\* array.includes(x)
Includes(array, x) == \E j \in 1..Len(array) : array[j] = x

\* new Date().toISOString(): the instant, as text.
NewDateISO == now

(***************************************************************************)
(* The curriculum: the module ids and module.sections.length of each.      *)
(***************************************************************************)
ModuleIds == {"ataxia", "epilepsy"}

SectionsLength == [ataxia |-> 2, epilepsy |-> 1]

\* module.sections.map((_, i) => i)
AllSections(moduleId) == [j \in 1..SectionsLength[moduleId] |-> j - 1]

Indices == 0..MaxIndex

(***************************************************************************)
(* lib/progress.ts                                                         *)
(***************************************************************************)
\* JSON.parse throws on a text that is not JSON; the catch gives {}.
getProgress ==
    LET stored == localStorage[STORAGE_KEY]
    IN  IF window = "undefined" THEN EmptyObject
        ELSE IF stored.kind = "json" THEN JSONparse(stored) ELSE EmptyObject

\* A slip of saveProgress: the exception of setItem is not caught.
saveProgress_nocatch(progress) ==
    IF window = "undefined"
    THEN UNCHANGED localStorage /\ thrown' = "" /\ setItemCalls' = 0
    ELSE IF quotaExceeded
    THEN /\ UNCHANGED localStorage
         /\ thrown' = QuotaExceededError
         /\ setItemCalls' = 1
    ELSE /\ localStorage' =
                [localStorage EXCEPT ![STORAGE_KEY] = JSONstringify(progress)]
         /\ thrown' = ""
         /\ setItemCalls' = 1

\* setItem throws when the quota is exceeded; the catch drops the exception.
saveProgress(progress) ==
    /\ localStorage' =
           IF window = "undefined" \/ quotaExceeded THEN localStorage
           ELSE [localStorage EXCEPT ![STORAGE_KEY] = JSONstringify(progress)]
    /\ thrown' = ""
    /\ setItemCalls' = IF window = "undefined" THEN 0 ELSE 1

\* The record as a list, empty for null; progress[moduleId] of null throws.
getModuleProgress(moduleId) ==
    LET progress == getProgress
    IN  IF IsNull(progress) THEN TypeError
        ELSE IF moduleId \in DOMAIN progress THEN <<progress[moduleId]>>
        ELSE <<>>

\* Defaults that leave quizCompleted out.
defaultModuleProgress_sparse ==
    [currentSlide |-> 0, sectionsRead |-> <<>>, slidesCompleted |-> FALSE]

defaultModuleProgress ==
    [currentSlide |-> 0, sectionsRead |-> <<>>,
     slidesCompleted |-> FALSE, quizCompleted |-> FALSE]

\* A slip of updateModuleProgress: the table saved holds the module alone.
updateModuleProgress_alone(moduleId, update) ==
    LET progress == getProgress
        existing == IF moduleId \in DOMAIN progress
                    THEN progress[moduleId] ELSE defaultModuleProgress
    IN  saveProgress(moduleId :> Spread(existing, update))

\* A slip of updateModuleProgress: the update is merged onto the defaults,
\* not onto the stored record.
updateModuleProgress_replace(moduleId, update) ==
    LET progress == getProgress
    IN  IF IsNull(progress)
        THEN UNCHANGED localStorage /\ thrown' = TypeError /\ setItemCalls' = 0
        ELSE saveProgress(Assign(progress, moduleId,
                                 Spread(defaultModuleProgress, update)))

updateModuleProgress(moduleId, update) ==
    LET progress == getProgress
        existing == IF moduleId \in DOMAIN progress
                    THEN progress[moduleId] ELSE defaultModuleProgress
    IN  IF IsNull(progress)
        THEN UNCHANGED localStorage /\ thrown' = TypeError /\ setItemCalls' = 0
        ELSE saveProgress(Assign(progress, moduleId, Spread(existing, update)))

\* A slip of markSectionRead: the start time is stamped on every write.
markSectionRead_restamp(moduleId, sectionIndex) ==
    LET progress == getProgress
        existing == IF moduleId \in DOMAIN progress
                    THEN progress[moduleId] ELSE defaultModuleProgress
        sectionsRead == IF "sectionsRead" \in DOMAIN existing
                        THEN existing.sectionsRead ELSE <<>>
    IN  IF Includes(sectionsRead, sectionIndex)
        THEN UNCHANGED localStorage /\ thrown' = "" /\ setItemCalls' = 0
        ELSE saveProgress(Assign(progress, moduleId,
                 Spread(existing,
                        [sectionsRead |-> Append(sectionsRead, sectionIndex),
                         startedAt |-> NewDateISO])))

\* A slip of markSectionRead: an index already recorded is saved again.
markSectionRead_resave(moduleId, sectionIndex) ==
    LET progress == getProgress
        existing == IF moduleId \in DOMAIN progress
                    THEN progress[moduleId] ELSE defaultModuleProgress
        sectionsRead == IF "sectionsRead" \in DOMAIN existing
                        THEN existing.sectionsRead ELSE <<>>
    IN  IF Includes(sectionsRead, sectionIndex)
        THEN saveProgress(progress)
        ELSE saveProgress(Assign(progress, moduleId,
                 Spread(existing,
                        [sectionsRead |-> Append(sectionsRead, sectionIndex),
                         startedAt |-> IF "startedAt" \in DOMAIN existing
                                       THEN existing.startedAt
                                       ELSE NewDateISO])))

\* A slip of markSectionRead: the index is appended without the presence test.
markSectionRead_nocheck(moduleId, sectionIndex) ==
    LET progress == getProgress
        existing == IF moduleId \in DOMAIN progress
                    THEN progress[moduleId] ELSE defaultModuleProgress
        sectionsRead == IF "sectionsRead" \in DOMAIN existing
                        THEN existing.sectionsRead ELSE <<>>
    IN  saveProgress(Assign(progress, moduleId,
            Spread(existing,
                   [sectionsRead |-> Append(sectionsRead, sectionIndex),
                    startedAt |-> IF "startedAt" \in DOMAIN existing
                                  THEN existing.startedAt ELSE NewDateISO])))

markSectionRead(moduleId, sectionIndex) ==
    LET progress == getProgress
        existing == IF moduleId \in DOMAIN progress
                    THEN progress[moduleId] ELSE defaultModuleProgress
        sectionsRead == IF "sectionsRead" \in DOMAIN existing
                        THEN existing.sectionsRead ELSE <<>>
    IN  IF IsNull(progress)
        THEN UNCHANGED localStorage /\ thrown' = TypeError /\ setItemCalls' = 0
        ELSE IF Includes(sectionsRead, sectionIndex)
        THEN UNCHANGED localStorage /\ thrown' = "" /\ setItemCalls' = 0
        ELSE saveProgress(Assign(progress, moduleId,
                 Spread(existing,
                        [sectionsRead |-> Append(sectionsRead, sectionIndex),
                         startedAt |-> IF "startedAt" \in DOMAIN existing
                                       THEN existing.startedAt ELSE NewDateISO])))

\* Math.round((length / totalSections) * 100) in double arithmetic.
Percent(count, total) == MathRound(FMul(FDiv(count, total), 100))

\* A slip of getModuleSectionProgress: completion is tested before the
\* zero-sections guard.
getModuleSectionProgress_completedFirst(moduleId, totalSections) ==
    LET progress == getProgress
    IN  IF moduleId \notin DOMAIN progress THEN 0
        ELSE LET mp == progress[moduleId]
             IN  IF mp.slidesCompleted THEN 100
                 ELSE IF totalSections = 0 THEN 0
                 ELSE Percent(Len(mp.sectionsRead), totalSections)

\* A slip of getModuleSectionProgress: completion does not override the ratio.
getModuleSectionProgress_ratioOnly(moduleId, totalSections) ==
    LET progress == getProgress
    IN  IF totalSections = 0 THEN 0
        ELSE IF moduleId \notin DOMAIN progress THEN 0
        ELSE Percent(Len(progress[moduleId].sectionsRead), totalSections)

getModuleSectionProgress(moduleId, totalSections) ==
    LET progress == getProgress
    IN  IF totalSections = 0 THEN 0
        ELSE IF IsNull(progress) THEN TypeError
        ELSE IF moduleId \notin DOMAIN progress THEN 0
        ELSE LET mp == progress[moduleId]
             IN  IF "slidesCompleted" \in DOMAIN mp /\ mp.slidesCompleted
                 THEN 100
                 ELSE Percent(IF "sectionsRead" \in DOMAIN mp
                              THEN Len(mp.sectionsRead) ELSE 0,
                              totalSections)

getOverallStats(progress, totalModules) ==
    LET started   == Cardinality(DOMAIN progress)
        completed == Cardinality(
                         {k \in DOMAIN progress :
                              /\ "slidesCompleted" \in DOMAIN progress[k]
                              /\ progress[k].slidesCompleted
                              /\ "quizCompleted" \in DOMAIN progress[k]
                              /\ progress[k].quizCompleted})
        percent   == IF totalModules > 0 THEN Percent(completed, totalModules)
                     ELSE 0
    IN  [started |-> started, completed |-> completed, percent |-> percent]

(***************************************************************************)
(* lib/flags.ts                                                            *)
(***************************************************************************)
\* The UTF-16 code units of the strings the model uses (String.charCodeAt).
CharCodes ==
    [ataxia   |-> <<97, 116, 97, 120, 105, 97>>,
     Ataxia   |-> <<65, 116, 97, 120, 105, 97>>,
     Genetics |-> <<71, 101, 110, 101, 116, 105, 99, 115>>,
     Aa       |-> <<65, 97>>,
     BB       |-> <<66, 66>>,
     SCA1     |-> <<83, 67, 65, 49>>]

\* "||"
Separator == <<124, 124>>

\* A 32-bit integer in two's complement, as two 16-bit words.
Word == Pow2(16)

Int32Zero == [hi |-> 0, lo |-> 0]

\* h << 5
ShiftLeft5(h) ==
    LET lo == h.lo * 32
    IN  [hi |-> (h.hi * 32 + lo \div Word) % Word, lo |-> lo % Word]

\* (a - b) | 0
Sub32(a, b) ==
    LET borrow == IF a.lo < b.lo THEN 1 ELSE 0
    IN  [hi |-> (a.hi - b.hi - borrow) % Word,
         lo |-> (a.lo - b.lo + borrow * Word) % Word]

\* (a + c) | 0 for a code unit c
Add32(a, c) ==
    LET lo == a.lo + c
    IN  [hi |-> (a.hi + lo \div Word) % Word, lo |-> lo % Word]

\* Math.abs of a 32-bit integer: an unsigned value up to 2^31.
Abs32(h) == IF h.hi >= Word \div 2 THEN Sub32(Int32Zero, h) ELSE h

\* n.toString(36) of an unsigned value, as its digits 0..35.
RECURSIVE ToString36(_)
ToString36(u) ==
    LET qhi  == u.hi \div 36
        rest == (u.hi % 36) * Word + u.lo
        q    == [hi |-> qhi, lo |-> rest \div 36]
    IN  IF q = Int32Zero THEN <<rest % 36>>
        ELSE Append(ToString36(q), rest % 36)

\* A slip of the loop: the hash is added to the shifted hash.
HashStep_plus(hash, code) ==
    LET sum == [hi |-> (ShiftLeft5(hash).hi + hash.hi
                            + (ShiftLeft5(hash).lo + hash.lo) \div Word) % Word,
                lo |-> (ShiftLeft5(hash).lo + hash.lo) % Word]
    IN  Add32(sum, code)

\* One turn of the loop of makeId:
\* hash = ((hash << 5) - hash + str.charCodeAt(i)) | 0
HashStep(hash, code) == Add32(Sub32(ShiftLeft5(hash), hash), code)

\* The values `| 0` yields.
Int32 == [hi : 0..(Word - 1), lo : 0..(Word - 1)]

\* The loop of makeId from str[i] on; every turn leaves a 32-bit value.
RECURSIVE HashFrom(_, _, _)
HashFrom(str, i, hash) ==
    IF i > Len(str) THEN hash
    ELSE LET next == HashStep(hash, str[i])
         IN  CASE next \in Int32 -> HashFrom(str, i + 1, next)

\* `${moduleId}||${sectionTitle}||${keyPoint}`
IdString(moduleId, sectionTitle, keyPoint) ==
    CharCodes[moduleId] \o Separator \o CharCodes[sectionTitle]
        \o Separator \o CharCodes[keyPoint]

\* Math.abs(hash).toString(36)
AbsToString36(hash) == ToString36(Abs32(hash))

makeId(moduleId, sectionTitle, keyPoint) ==
    LET str == IdString(moduleId, sectionTitle, keyPoint)
    IN  AbsToString36(HashFrom(str, 1, Int32Zero))

\* JSON.parse throws on a text that is not JSON; the catch gives [].
getFlags ==
    LET stored == localStorage[FLAGS_KEY]
    IN  IF window = "undefined" THEN <<>>
        ELSE IF stored.kind = "json" THEN JSONparse(stored) ELSE <<>>

\* setItem throws when the quota is exceeded, and nothing catches it.
saveFlags(array) ==
    IF window = "undefined"
    THEN UNCHANGED localStorage /\ thrown' = "" /\ setItemCalls' = 0
    ELSE IF quotaExceeded
    THEN /\ UNCHANGED localStorage
         /\ thrown' = QuotaExceededError
         /\ setItemCalls' = 1
    ELSE /\ localStorage' =
                [localStorage EXCEPT ![FLAGS_KEY] = JSONstringify(array)]
         /\ thrown' = ""
         /\ setItemCalls' = 1

\* flags.findIndex((f) => f.id === id), counted from 1; 0 when there is none.
FindIndex(array, wanted) ==
    IF \E j \in 1..Len(array) : array[j].id = wanted
    THEN CHOOSE j \in 1..Len(array) :
             /\ array[j].id = wanted
             /\ \A k \in 1..(j - 1) : array[k].id # wanted
    ELSE 0

\* flags.filter((_, i) => i !== index)
RemoveAt(array, index) ==
    [j \in 1..(Len(array) - 1) |-> IF j < index THEN array[j] ELSE array[j + 1]]

\* flags.filter((f) => f.id !== id)
RECURSIVE FilterOutId(_, _)
FilterOutId(array, wanted) ==
    IF array = <<>> THEN <<>>
    ELSE LET rest == FilterOutId(Tail(array), wanted)
         IN  IF Head(array).id # wanted THEN <<Head(array)>> \o rest ELSE rest

\* A slip of toggleFlag: the record is appended without the presence test.
toggleFlag_nocheck(item) ==
    LET flags == getFlags
        id    == makeId(item.moduleId, item.sectionTitle, item.keyPoint)
    IN  [saved |-> Append(flags, Spread(item, [id |-> id, flaggedAt |-> now])),
         ret   |-> TRUE]

\* A slip of toggleFlag: an existing flag is reported but not removed.
toggleFlag_keep(item) ==
    LET flags       == getFlags
        id          == makeId(item.moduleId, item.sectionTitle, item.keyPoint)
        existingIdx == FindIndex(flags, id)
    IN  IF existingIdx # 0
        THEN [saved |-> flags, ret |-> FALSE]
        ELSE [saved |-> Append(flags,
                               Spread(item, [id |-> id, flaggedAt |-> now])),
              ret   |-> TRUE]

\* toggleFlag: the list it passes to saveFlags and the value it returns
\* when saveFlags does; flags.findIndex of null throws before any write.
toggleFlag(item) ==
    LET flags       == getFlags
        id          == makeId(item.moduleId, item.sectionTitle, item.keyPoint)
        existingIdx == FindIndex(flags, id)
    IN  IF IsNull(flags) THEN [thrown |-> TypeError]
        ELSE IF existingIdx # 0
        THEN [saved |-> RemoveAt(flags, existingIdx), ret |-> FALSE]
        ELSE [saved |-> Append(flags,
                               Spread(item, [id |-> id, flaggedAt |-> now])),
              ret   |-> TRUE]

\* A slip of removeFlag: the first record is removed, whatever its id.
removeFlag_first(id) ==
    IF IsNull(getFlags)
    THEN UNCHANGED localStorage /\ thrown' = TypeError /\ setItemCalls' = 0
    ELSE saveFlags(IF getFlags = <<>> THEN <<>> ELSE Tail(getFlags))

\* getFlags().filter of null throws.
removeFlag(id) ==
    IF IsNull(getFlags)
    THEN UNCHANGED localStorage /\ thrown' = TypeError /\ setItemCalls' = 0
    ELSE saveFlags(FilterOutId(getFlags, id))

\* A slip of isFlagged: the stored key point is compared, not the id.
isFlagged_byKeyPoint(moduleId, sectionTitle, keyPoint) ==
    \E j \in 1..Len(getFlags) :
        /\ getFlags[j].moduleId = moduleId
        /\ getFlags[j].sectionTitle = sectionTitle
        /\ getFlags[j].keyPoint = keyPoint

\* getFlags().some of null throws.
isFlagged(moduleId, sectionTitle, keyPoint) ==
    LET id == makeId(moduleId, sectionTitle, keyPoint)
    IN  IF IsNull(getFlags) THEN TypeError
        ELSE \E j \in 1..Len(getFlags) : getFlags[j].id = id


(***************************************************************************)
(* The operations as steps of the store.                                   *)
(***************************************************************************)
NoCall == [op |-> "none", args |-> <<>>, ret |-> <<>>, before |-> <<>>]

EmptyStorage == [k \in {STORAGE_KEY, FLAGS_KEY} |-> NoItem]

\* Nothing stored yet, no call made.
\* The views of the application that keep store content in React state:
\* two useProgress instances, two useFlags instances, and a key point with
\* its `flagged` state.
ProgressHooks == {"ContentReader", "ModuleTabs"}

FlagHooks == {"Navbar", "ReviewPage"}

Hooks == ProgressHooks \cup FlagHooks \cup {"FlaggableKeyPoint"}

\* With the SlideViewer, which no page of the application renders.
Views == Hooks \cup {"SlideViewer"}

\* A view that is not mounted.  state is the snapshot as a list, empty
\* while there is none; visibleSet and pc are ContentReader's set of
\* intersecting sections and the position of its observer callback.
Unmounted ==
    [mounted |-> FALSE, state |-> <<>>, visibleSet |-> {}, pc |-> "idle"]

\* The slide components: one SlidePresenter and one SlideGallery.
SlideViews == {"SlidePresenter", "SlideGallery"}

\* JSON null, and the manifest.json the server holds for a module: none
\* (the response is 404), text that is not JSON, or {count}.
NoManifest == [kind |-> "null", count |-> 0]

AbsentFile == [kind |-> "absent", count |-> 0]

GarbledFile == [kind |-> "garbled", count |-> 0]

ManifestJSON(count) == [kind |-> "json", count |-> count]

\* A slide component that is not mounted.  promise is the position of the
\* fetch chain of its effect, ok the `ok` of the response and data the
\* parsed body; loaded is the presenter's `loaded` and the negation of the
\* gallery's `loading`; slides is the presenter's `slides` and manifest the
\* gallery's `manifest`.
NoSlideView ==
    [mounted |-> FALSE, moduleId |-> "", promise |-> "none", ok |-> FALSE,
     data |-> NoManifest, loaded |-> FALSE, slides |-> <<>>,
     manifest |-> NoManifest]

\* The navigation state of the SlidePresenter with its useState initial
\* values: current, autoplay and visible, and the targets of the goTo
\* timers that are pending, oldest first.
NoPresenter ==
    [current |-> 0, autoplay |-> FALSE, visible |-> TRUE, timers |-> <<>>]

\* A QuizComponent that is not mounted, with the useState initial values.
\* selected is a list, empty for null.  picked, updates and lastFinished
\* are not state of the component: they keep the options selected for the
\* questions passed in this attempt, the number of update calls of this
\* attempt, and the picked list of the attempt finished last.
NoQuiz ==
    [mounted |-> FALSE, questionIndex |-> 0, selected |-> <<>>,
     answers |-> <<>>, state |-> "idle", finished |-> FALSE, score |-> 0,
     picked |-> <<>>, updates |-> 0, lastFinished |-> <<>>]

\* No manifest on the server, no slide or quiz component mounted.
NoComponents ==
    /\ manifests = [m \in ModuleIds |-> AbsentFile]
    /\ slideViews = [c \in SlideViews |-> NoSlideView]
    /\ quiz = NoQuiz
    /\ presenter = NoPresenter

\* A browser whose storage takes every write.
InBrowser ==
    /\ window = "object"
    /\ quotaExceeded = FALSE
    /\ thrown = ""
    /\ setItemCalls = 0
    /\ hooks = [h \in Views |-> Unmounted]
    /\ NoComponents

Init ==
    /\ localStorage = EmptyStorage
    /\ now = 0
    /\ history = <<>>
    /\ lastCall = NoCall
    /\ prevCall = NoCall
    /\ InBrowser

\* Time passes.
Tick ==
    /\ now < MaxTime
    /\ now' = now + 1
    /\ UNCHANGED <<localStorage, history, lastCall, prevCall, thrown,
                   setItemCalls, context>>

\* The update ContentReader.handleComplete passes.
ReaderComplete(moduleId) ==
    [slidesCompleted |-> TRUE,
     currentSlide    |-> SectionsLength[moduleId],
     sectionsRead    |-> AllSections(moduleId),
     completedAt     |-> NewDateISO]

\* The update SlideViewer.handleComplete passes.
ViewerComplete(moduleId) ==
    [slidesCompleted |-> TRUE,
     currentSlide    |-> SectionsLength[moduleId],
     completedAt     |-> NewDateISO]

Updates(moduleId) == {ReaderComplete(moduleId), ViewerComplete(moduleId)}

MarkSectionRead(moduleId, sectionIndex) ==
    /\ markSectionRead(moduleId, sectionIndex)
    /\ UNCHANGED <<now, history, lastCall, prevCall, context>>

UpdateModuleProgress(moduleId, update) ==
    /\ updateModuleProgress(moduleId, update)
    /\ UNCHANGED <<now, history, lastCall, prevCall, context>>

Next ==
    \/ \E m \in ModuleIds, i \in Indices : MarkSectionRead(m, i)
    \/ \E m \in ModuleIds : \E u \in Updates(m) : UpdateModuleProgress(m, u)
    \/ Tick

\* The progress store under markSectionRead and updateModuleProgress.
Spec == Init /\ [][Next]_vars

\* markSectionRead, the call recorded in history.
MarkCall(moduleId, sectionIndex) ==
    /\ Len(history) < MaxCalls
    /\ markSectionRead(moduleId, sectionIndex)
    /\ history' = Append(history, <<moduleId, sectionIndex>>)
    /\ UNCHANGED <<now, lastCall, prevCall, context>>

NextMark ==
    \/ \E m \in ModuleIds, i \in Indices : MarkCall(m, i)
    \/ Tick

\* The progress store under markSectionRead alone, from empty storage.
SpecMark == Init /\ [][NextMark]_vars

(***************************************************************************)
(* What the properties read from the store.                                *)
(***************************************************************************)
HasRecord(moduleId) == moduleId \in DOMAIN getProgress

SectionsReadOf(moduleId) ==
    IF HasRecord(moduleId) THEN getProgress[moduleId].sectionsRead ELSE <<>>

\* The startedAt of a module as a list: empty while it is unset.
StartedAtOf(progress, moduleId) ==
    IF moduleId \in DOMAIN progress /\ "startedAt" \in DOMAIN progress[moduleId]
    THEN <<progress[moduleId].startedAt>> ELSE <<>>

SlidesCompletedOf(moduleId) ==
    HasRecord(moduleId) /\ getProgress[moduleId].slidesCompleted

\* The indices passed to markSectionRead for a module so far.
Passed(moduleId) ==
    {history[j][2] : j \in {k \in 1..Len(history) : history[k][1] = moduleId}}

\* Some call in history repeats an earlier one.
Repeated == \E j, k \in 1..Len(history) : j < k /\ history[j] = history[k]

(***************************************************************************)
(* C1: from empty storage, after any sequence of markSectionRead calls the *)
(* stored sectionsRead of every module holds each index passed for that    *)
(* module exactly once, and nothing else.                                  *)
(***************************************************************************)
C1_EachPassedIndexOnce ==
    \A m \in ModuleIds :
        LET sr == SectionsReadOf(m)
        IN  /\ \A i \in Passed(m) :
                   Cardinality({j \in 1..Len(sr) : sr[j] = i}) = 1
            /\ \A j \in 1..Len(sr) : sr[j] \in Passed(m)

\* Indices 0, 1, 1 passed for one module (one of them twice), and another
\* call for the other module: sectionsRead is [0, 1].
C1_Witness ==
    /\ Repeated
    /\ Passed("ataxia") = {0, 1}
    /\ Passed("epilepsy") # {}
    /\ SectionsReadOf("ataxia") = <<0, 1>>

(***************************************************************************)
(* C2: markSectionRead never changes a startedAt that is set, whether the  *)
(* index is new or not and whether or not the module is complete; the      *)
(* stamp is written only by a call that finds startedAt unset, and is the  *)
(* time of that call.                                                      *)
(***************************************************************************)
C2_StartedAtKept ==
    [][\A m \in ModuleIds, i \in Indices :
           markSectionRead(m, i) =>
               LET before == StartedAtOf(getProgress, m)
                   after  == StartedAtOf(getProgress', m)
               IN  /\ before # <<>> => after = before
                   /\ after # before => before = <<>> /\ after = <<now>>]_vars

\* A completed module whose start time is older than the clock and whose
\* sectionsRead grew after completion.
C2_Witness ==
    /\ now = 1
    /\ SlidesCompletedOf("epilepsy")
    /\ StartedAtOf(getProgress, "epilepsy") = <<0>>
    /\ getProgress["epilepsy"].completedAt = 1
    /\ SectionsReadOf("epilepsy") = <<0, 1>>


(***************************************************************************)
(* The flag store under toggleFlag and removeFlag.                         *)
(***************************************************************************)
KeyPoints == {"Aa", "BB", "SCA1"}

\* The candidates passed to toggleFlag; "Aa" and "BB" hash to the same id.
Items ==
    {[moduleId |-> "ataxia", moduleTitle |-> "Ataxia",
      sectionTitle |-> "Genetics", keyPoint |-> kp] : kp \in KeyPoints}

ItemId(item) == makeId(item.moduleId, item.sectionTitle, item.keyPoint)

\* The ids passed to removeFlag: those of the candidates, and "0".
RemovableIds == {ItemId(item) : item \in Items} \cup {<<0>>}

\* What a toggleFlag call does to the store.
toggleFlagWrites(candidate) ==
    LET r == toggleFlag(candidate)
    IN  IF "thrown" \in DOMAIN r
        THEN UNCHANGED localStorage /\ thrown' = r.thrown /\ setItemCalls' = 0
        ELSE saveFlags(r.saved)

\* toggleFlag as a step: ret stays empty when the call throws.
ToggleFlag(candidate) ==
    LET r == toggleFlag(candidate)
    IN  /\ toggleFlagWrites(candidate)
        /\ lastCall' = [op |-> "toggleFlag", args |-> <<candidate>>,
                        ret |-> IF thrown' = "" THEN <<r.ret>> ELSE <<>>,
                        before |-> getFlags]
        /\ prevCall' = lastCall
        /\ UNCHANGED <<now, history, context>>

RemoveFlag(id) ==
    /\ removeFlag(id)
    /\ lastCall' = [op |-> "removeFlag", args |-> <<id>>,
                    ret |-> <<>>, before |-> getFlags]
    /\ prevCall' = lastCall
    /\ UNCHANGED <<now, history, context>>

NextFlags ==
    \/ \E item \in Items : ToggleFlag(item)
    \/ \E id \in RemovableIds : RemoveFlag(id)
    \/ Tick

SpecFlags == Init /\ [][NextFlags]_vars

\* The ids of the records of a flag list.
Ids(flags) == {flags[j].id : j \in 1..Len(flags)}

(***************************************************************************)
(* C3: two successive toggleFlag calls with the same candidate return      *)
(* opposite booleans and leave the set of flagged ids as it was before the *)
(* pair; from an unflagged candidate they return true then false, and from *)
(* an empty list the list is empty again.                                  *)
(***************************************************************************)
C3_ToggleTwice ==
    (/\ lastCall.op = "toggleFlag"
     /\ prevCall.op = "toggleFlag"
     /\ lastCall.args = prevCall.args)
    => /\ lastCall.ret # prevCall.ret
       /\ Ids(getFlags) = Ids(prevCall.before)
       /\ ItemId(lastCall.args[1]) \notin Ids(prevCall.before)
              => prevCall.ret = <<TRUE>> /\ lastCall.ret = <<FALSE>>
       /\ prevCall.before = <<>> => getFlags = <<>>

\* The pair true, false on a list that held another flag.
C3_Witness ==
    /\ lastCall.op = "toggleFlag"
    /\ prevCall.op = "toggleFlag"
    /\ lastCall.args = prevCall.args
    /\ Len(prevCall.before) = 1
    /\ prevCall.ret = <<TRUE>>
    /\ lastCall.ret = <<FALSE>>
    /\ getFlags = prevCall.before

(***************************************************************************)
(* C4: isFlagged agrees with the last toggleFlag result for the same       *)
(* triple, and isFlagged of a triple is true exactly when the stored list  *)
(* holds a record with the id derived from the triple.                     *)
(***************************************************************************)
C4_IsFlaggedAgrees ==
    /\ lastCall.op = "toggleFlag" =>
           LET x == lastCall.args[1]
           IN  isFlagged(x.moduleId, x.sectionTitle, x.keyPoint)
                   = lastCall.ret[1]
    /\ \A x \in Items :
           isFlagged(x.moduleId, x.sectionTitle, x.keyPoint)
               <=> ItemId(x) \in Ids(getFlags)

\* toggleFlag returned true for "Aa", then false for "BB" of the same id.
C4_Witness ==
    /\ prevCall.op = "toggleFlag"
    /\ prevCall.args[1].keyPoint = "Aa"
    /\ prevCall.ret = <<TRUE>>
    /\ lastCall.op = "toggleFlag"
    /\ lastCall.args[1].keyPoint = "BB"
    /\ lastCall.ret = <<FALSE>>
    /\ ~isFlagged("ataxia", "Genetics", "BB")

(***************************************************************************)
(* C5: in every state reached from the empty list by toggleFlag and        *)
(* removeFlag, the stored list holds at most one record per id.            *)
(***************************************************************************)
C5_OneFlagPerId ==
    \A j, k \in 1..Len(getFlags) :
        j # k => getFlags[j].id # getFlags[k].id

\* Two flags stored; the last call toggled a candidate on that a removeFlag
\* had taken off.
C5_Witness ==
    /\ Len(getFlags) = 2
    /\ prevCall.op = "removeFlag"
    /\ lastCall.op = "toggleFlag"
    /\ lastCall.ret = <<TRUE>>
    /\ prevCall.args[1] = ItemId(lastCall.args[1])
    /\ Len(prevCall.before) = 2


(***************************************************************************)
(* getModuleSectionProgress applied to stored records.  The record of      *)
(* "ataxia" is one the store reaches by markSectionRead of `count`         *)
(* distinct indices and, when `completed`, a later update that sets        *)
(* slidesCompleted; "epilepsy" has no record.                              *)
(***************************************************************************)
ReadRecord(count, completed) ==
    LET started == IF count = 0 THEN defaultModuleProgress
                   ELSE Spread(defaultModuleProgress,
                               [sectionsRead |-> [j \in 1..count |-> j - 1],
                                startedAt    |-> 0])
    IN  IF completed
        THEN Spread(started, [slidesCompleted |-> TRUE, completedAt |-> 0])
        ELSE started

InitPercent ==
    /\ \E present, completed \in BOOLEAN, count \in 0..MaxTotal :
           localStorage =
               [EmptyStorage EXCEPT ![STORAGE_KEY] =
                    IF present
                    THEN JSONstringify("ataxia" :> ReadRecord(count, completed))
                    ELSE NoItem]
    /\ now = 0
    /\ history = <<>>
    /\ lastCall = NoCall
    /\ prevCall = NoCall
    /\ InBrowser

GetModuleSectionProgress(moduleId, totalSections) ==
    /\ lastCall = NoCall
    /\ lastCall' = [op     |-> "getModuleSectionProgress",
                    args   |-> <<moduleId, totalSections>>,
                    ret    |-> <<getModuleSectionProgress(moduleId, totalSections)>>,
                    before |-> <<>>]
    /\ UNCHANGED <<localStorage, now, history, prevCall, thrown,
                   setItemCalls, context>>

NextPercent ==
    \E m \in ModuleIds, n \in 0..MaxTotal : GetModuleSectionProgress(m, n)

SpecPercent == InitPercent /\ [][NextPercent]_vars

\* a/b rounded to the nearest integer, one half going up (a >= 0, b > 0).
RoundHalfUp(a, b) == (2 * a + b) \div (2 * b)

\* getModuleSectionProgress was called for a module whose slidesCompleted is
\* true / not true.
CalledCompleted ==
    /\ lastCall.op = "getModuleSectionProgress"
    /\ SlidesCompletedOf(lastCall.args[1])

CalledIncomplete ==
    /\ lastCall.op = "getModuleSectionProgress"
    /\ ~SlidesCompletedOf(lastCall.args[1])

(***************************************************************************)
(* C6, as claimed: getModuleSectionProgress(m, n) returns 100 whenever the *)
(* record of m has slidesCompleted true, for every total n.                *)
(***************************************************************************)
C6_CompletedIs100 == CalledCompleted => lastCall.ret = <<100>>

(***************************************************************************)
(* C6, amended: getModuleSectionProgress(m, n) returns 100 whenever the    *)
(* record of m has slidesCompleted true and n is not 0, for every          *)
(* sectionsRead including the empty list.                                  *)
(***************************************************************************)
C6_CompletedIs100UnlessNoSections ==
    (CalledCompleted /\ lastCall.args[2] # 0) => lastCall.ret = <<100>>

\* A completed module with nothing read, asked with three sections: 100.
C6_Witness ==
    /\ CalledCompleted
    /\ SectionsReadOf(lastCall.args[1]) = <<>>
    /\ lastCall.args[2] = 3
    /\ lastCall.ret = <<100>>

(***************************************************************************)
(* C7: getModuleSectionProgress(m, 0) returns 0 in every progress state of *)
(* m, a completed one included.                                            *)
(***************************************************************************)
C7_NoSectionsIsZero ==
    (lastCall.op = "getModuleSectionProgress" /\ lastCall.args[2] = 0)
        => lastCall.ret = <<0>>

\* A completed module with sections read, asked with zero sections: 0.
C7_Witness ==
    /\ CalledCompleted
    /\ Len(SectionsReadOf(lastCall.args[1])) = 2
    /\ lastCall.args[2] = 0
    /\ lastCall.ret = <<0>>

(***************************************************************************)
(* C8: in every state reached through markSectionRead and                  *)
(* updateModuleProgress, getModuleSectionProgress(m, totalSections) is an  *)
(* integer in 0..100, totalSections being the section count of m.          *)
(***************************************************************************)
C8_PercentInRange ==
    \A m \in ModuleIds :
        getModuleSectionProgress(m, SectionsLength[m]) \in 0..100

(***************************************************************************)
(* C9: when totalSections > 0 and the module is not marked slidesCompleted *)
(* getModuleSectionProgress(m, totalSections) is                           *)
(* round(100 * |sectionsRead| / totalSections), 0 without a record.        *)
(***************************************************************************)
C9_RoundedRatio ==
    (CalledIncomplete /\ lastCall.args[2] > 0)
        => lastCall.ret =
               <<RoundHalfUp(100 * Len(SectionsReadOf(lastCall.args[1])),
                             lastCall.args[2])>>

(***************************************************************************)
(* getOverallStats applied to the stored mapping, as HomePage calls it.    *)
(* The mapping holds `started` records, the first `completed` of them with *)
(* both slides and quiz completed, the others with one of the two or none; *)
(* history keeps <<started, completed>>.                                   *)
(***************************************************************************)
StatsRecord(j, completed) ==
    IF j <= completed
    THEN Spread(defaultModuleProgress,
                [slidesCompleted |-> TRUE, quizCompleted |-> TRUE,
                 quizScore |-> 1])
    ELSE IF j % 3 = 0
    THEN Spread(defaultModuleProgress, [slidesCompleted |-> TRUE])
    ELSE IF j % 3 = 1
    THEN Spread(defaultModuleProgress,
                [quizCompleted |-> TRUE, quizScore |-> 0])
    ELSE Spread(defaultModuleProgress, [lastSection |-> 0])

StatsProgress(started, completed) ==
    [id \in {ToString(j) : j \in 1..started} |->
        StatsRecord(CHOOSE j \in 1..started : ToString(j) = id, completed)]

InitStats ==
    /\ \E started \in 0..MaxModules : \E completed \in 0..started :
           /\ localStorage =
                  [EmptyStorage EXCEPT ![STORAGE_KEY] =
                       IF started = 0 THEN NoItem
                       ELSE JSONstringify(StatsProgress(started, completed))]
           /\ history = <<started, completed>>
    /\ now = 0
    /\ lastCall = NoCall
    /\ prevCall = NoCall
    /\ InBrowser

GetOverallStats(totalModules) ==
    /\ lastCall = NoCall
    /\ lastCall' = [op     |-> "getOverallStats",
                    args   |-> <<totalModules>>,
                    ret    |-> <<getOverallStats(getProgress, totalModules)>>,
                    before |-> <<>>]
    /\ UNCHANGED <<localStorage, now, history, prevCall, thrown,
                   setItemCalls, context>>

NextStats == \E n \in 0..MaxModules : GetOverallStats(n)

SpecStats == InitStats /\ [][NextStats]_vars

(***************************************************************************)
(* C10: getOverallStats(progress, total) returns started = the number of   *)
(* records, completed = the number of records with slidesCompleted and     *)
(* quizCompleted both true, and percent = round(100 * completed / total),  *)
(* 0 when total is 0.                                                      *)
(***************************************************************************)
C10_OverallStats ==
    lastCall.op = "getOverallStats" =>
        lastCall.ret =
            <<[started   |-> history[1],
               completed |-> history[2],
               percent   |-> IF lastCall.args[1] = 0 THEN 0
                             ELSE RoundHalfUp(100 * history[2],
                                              lastCall.args[1])]>>


(***************************************************************************)
(* The store over any stored content.  The two blobs start absent,         *)
(* unparseable ("not json"), as the text "null", or as a serialized        *)
(* mapping / list, inside or outside a browser; every operation of the     *)
(* store is called, and lastCall and thrown keep how the call completed.   *)
(***************************************************************************)
StoredFlag(keyPoint) ==
    LET item == [moduleId |-> "ataxia", moduleTitle |-> "Ataxia",
                 sectionTitle |-> "Genetics", keyPoint |-> keyPoint]
    IN  Spread(item, [id |-> ItemId(item), flaggedAt |-> 0])

InitBlobs ==
    /\ \E p \in 1..5, f \in 1..5 :
           LET progressBlob ==
                   CASE p = 1 -> NoItem
                     [] p = 2 -> BadText
                     [] p = 3 -> NullText
                     [] p = 4 -> JSONstringify(EmptyObject)
                     [] p = 5 -> JSONstringify("ataxia" :> ReadRecord(1, FALSE))
               flagBlob ==
                   CASE f = 1 -> NoItem
                     [] f = 2 -> BadText
                     [] f = 3 -> NullText
                     [] f = 4 -> JSONstringify(<<>>)
                     [] f = 5 -> JSONstringify(<<StoredFlag("SCA1")>>)
           IN  localStorage = (STORAGE_KEY :> progressBlob)
                                  @@ (FLAGS_KEY :> flagBlob)
    /\ window \in {"undefined", "object"}
    /\ (window = "undefined" => localStorage = EmptyStorage)
    /\ quotaExceeded = FALSE
    /\ thrown = ""
    /\ setItemCalls = 0
    /\ hooks = [h \in Views |-> Unmounted]
    /\ NoComponents
    /\ now = 0
    /\ history = <<>>
    /\ lastCall = NoCall
    /\ prevCall = NoCall

\* A call that returns a value or throws and writes nothing.
ReadCall(op, result) ==
    /\ lastCall' = [NoCall EXCEPT !.op = op]
    /\ thrown' = IF Threw(result, TypeError) THEN TypeError ELSE ""
    /\ setItemCalls' = 0
    /\ UNCHANGED <<localStorage, now, history, prevCall, context>>

\* A call that writes and returns nothing.
WriteCall(op) ==
    /\ lastCall' = [NoCall EXCEPT !.op = op]
    /\ UNCHANGED <<now, history, prevCall, context>>

NextBlobs ==
    \/ ReadCall("getProgress", getProgress)
    \/ ReadCall("getFlags", getFlags)
    \/ \E m \in ModuleIds :
           ReadCall("getModuleProgress", getModuleProgress(m))
    \/ \E m \in ModuleIds, n \in 0..1 :
           ReadCall("getModuleSectionProgress", getModuleSectionProgress(m, n))
    \/ \E x \in Items :
           ReadCall("isFlagged",
                    isFlagged(x.moduleId, x.sectionTitle, x.keyPoint))
    \/ \E m \in ModuleIds :
           /\ updateModuleProgress(m, ViewerComplete(m))
           /\ WriteCall("updateModuleProgress")
    \/ \E m \in ModuleIds :
           /\ markSectionRead(m, 0)
           /\ WriteCall("markSectionRead")
    \/ \E x \in Items :
           /\ toggleFlagWrites(x)
           /\ WriteCall("toggleFlag")
    \/ \E id \in RemovableIds :
           /\ removeFlag(id)
           /\ WriteCall("removeFlag")

SpecBlobs == InitBlobs /\ [][NextBlobs]_vars

\* The stored text of a key is a serialized mapping or list.
WellFormed(key) ==
    localStorage[key].kind = "json" /\ ~IsNull(localStorage[key].value)

(***************************************************************************)
(* C11: every read fails open.  Whenever a stored blob is unavailable,     *)
(* unparseable or otherwise not a serialized mapping (progress) or list    *)
(* (flags), getProgress returns an empty mapping and getFlags an empty     *)
(* list, and no operation of the store throws to its caller.               *)
(***************************************************************************)
C11_ReadsFailOpen ==
    /\ ~WellFormed(STORAGE_KEY) => DOMAIN getProgress = {}
    /\ ~WellFormed(FLAGS_KEY) => DOMAIN getFlags = {}
    /\ thrown = ""


(***************************************************************************)
(* The progress store under every update the views pass: the two           *)
(* handleComplete updates, the slide reached (SlideViewer.goTo), the last  *)
(* section viewed (ContentReader) and the quiz result (QuizComponent).     *)
(***************************************************************************)
Partials(moduleId) ==
    Updates(moduleId)
        \cup {[currentSlide |-> 1], [lastSection |-> 0],
              [quizCompleted |-> TRUE, quizScore |-> 1]}

NextUpdate ==
    \/ \E m \in ModuleIds : MarkSectionRead(m, 0)
    \/ \E m \in ModuleIds : \E u \in Partials(m) : UpdateModuleProgress(m, u)
    \/ Tick

SpecUpdate == Init /\ [][NextUpdate]_vars

(***************************************************************************)
(* C12: updateModuleProgress(m, partial) is a shallow merge.  After the    *)
(* call every field named in partial has the value given in partial, every *)
(* other field has the value it had in the prior record of m, and when m   *)
(* had no record the other fields are currentSlide 0, sectionsRead [],     *)
(* slidesCompleted false, quizCompleted false.                             *)
(***************************************************************************)
C12_ShallowMerge ==
    [][\A m \in ModuleIds : \A u \in Partials(m) :
           updateModuleProgress(m, u) =>
               LET before == IF m \in DOMAIN getProgress THEN getProgress[m]
                             ELSE [currentSlide |-> 0, sectionsRead |-> <<>>,
                                   slidesCompleted |-> FALSE,
                                   quizCompleted |-> FALSE]
                   after  == getProgress'[m]
               IN  /\ DOMAIN after = DOMAIN before \cup DOMAIN u
                   /\ \A f \in DOMAIN u : after[f] = u[f]
                   /\ \A f \in DOMAIN before \ DOMAIN u :
                          after[f] = before[f]]_vars

\* "ataxia": a section read at time 0, then the quiz result, the last
\* section and SlideViewer's completion at time 1 merged onto it, each
\* keeping what the others wrote; "epilepsy": the last section alone merged
\* onto the defaults.
C12_Witness ==
    /\ HasRecord("ataxia")
    /\ getProgress["ataxia"] =
           [currentSlide |-> 2, sectionsRead |-> <<0>>,
            slidesCompleted |-> TRUE, quizCompleted |-> TRUE,
            quizScore |-> 1, startedAt |-> 0, completedAt |-> 1,
            lastSection |-> 0]
    /\ HasRecord("epilepsy")
    /\ getProgress["epilepsy"] =
           [currentSlide |-> 0, sectionsRead |-> <<>>,
            slidesCompleted |-> FALSE, quizCompleted |-> FALSE,
            lastSection |-> 0]


(***************************************************************************)
(* C13: for every module, across any sequence of store operations,         *)
(* sectionsRead only grows: an index present in sectionsRead before an     *)
(* operation is still present after it, so the cardinality never           *)
(* decreases.                                                              *)
(***************************************************************************)
C13_SectionsReadGrows ==
    [][\A m \in ModuleIds :
           /\ \A j \in 1..Len(SectionsReadOf(m)) :
                  Includes(SectionsReadOf(m)', SectionsReadOf(m)[j])
           /\ Len(SectionsReadOf(m)') >= Len(SectionsReadOf(m))]_vars


(***************************************************************************)
(* The progress store while the storage quota comes and goes: a setItem    *)
(* issued while quotaExceeded holds throws.  lastCall keeps the last call  *)
(* and its arguments.                                                      *)
(***************************************************************************)
\* The storage fills up, or room is made.
SetQuota ==
    /\ quotaExceeded' = ~quotaExceeded
    /\ UNCHANGED <<localStorage, now, history, lastCall, prevCall,
                   window, thrown, setItemCalls, hooks,
                   components>>

\* A call that writes and returns nothing, kept with its arguments.
Called(op, args) ==
    /\ lastCall' = [op |-> op, args |-> args, ret |-> <<>>, before |-> <<>>]
    /\ UNCHANGED <<now, history, prevCall, context>>

NextQuota ==
    \/ \E m \in ModuleIds, i \in Indices :
           /\ markSectionRead(m, i)
           /\ Called("markSectionRead", <<m, i>>)
    \/ \E m \in ModuleIds : \E u \in Updates(m) :
           /\ updateModuleProgress(m, u)
           /\ Called("updateModuleProgress", <<m, u>>)
    \/ SetQuota

SpecQuota == Init /\ [][NextQuota]_vars

(***************************************************************************)
(* C14: a failing progress write is dropped silently.  When setItem fails  *)
(* during updateModuleProgress or markSectionRead, the call returns        *)
(* without throwing and the stored progress is what it was before the      *)
(* call.                                                                   *)
(***************************************************************************)
C14_FailedProgressWriteDropped ==
    [][quotaExceeded =>
           /\ \A m \in ModuleIds, i \in Indices :
                  markSectionRead(m, i) =>
                      /\ thrown' = ""
                      /\ localStorage' = localStorage
           /\ \A m \in ModuleIds : \A u \in Updates(m) :
                  updateModuleProgress(m, u) =>
                      /\ thrown' = ""
                      /\ localStorage' = localStorage]_vars

\* markSectionRead("ataxia", 1) was the last call and returned, yet index 1
\* is not stored: its write failed; the index stored before it is kept.
C14_Witness ==
    /\ quotaExceeded
    /\ lastCall.op = "markSectionRead"
    /\ lastCall.args = <<"ataxia", 1>>
    /\ thrown = ""
    /\ SectionsReadOf("ataxia") = <<0>>


(***************************************************************************)
(* The flag store while the storage quota comes and goes.                  *)
(***************************************************************************)
NextFlagsQuota ==
    \/ \E item \in Items : ToggleFlag(item)
    \/ \E id \in RemovableIds : RemoveFlag(id)
    \/ SetQuota

SpecFlagsQuota == Init /\ [][NextFlagsQuota]_vars

(***************************************************************************)
(* C15: a failing flag write is dropped silently.  When setItem fails      *)
(* during toggleFlag or removeFlag, the call does not throw to its caller  *)
(* and the stored flag list is what it was before the call.                *)
(***************************************************************************)
C15_FailedFlagWriteDropped ==
    [][quotaExceeded =>
           /\ \A item \in Items :
                  toggleFlagWrites(item) =>
                      /\ thrown' = ""
                      /\ localStorage' = localStorage
           /\ \A id \in RemovableIds :
                  removeFlag(id) =>
                      /\ thrown' = ""
                      /\ localStorage' = localStorage]_vars


(***************************************************************************)
(* The views.  A module page shows module "ataxia": ModuleTabs and, inside *)
(* it, ContentReader with a FlaggableKeyPoint; Navbar and ReviewPage hold  *)
(* useFlags instances.  Another tab of the application writes to the same  *)
(* storage.  Storage takes every write and holds serialized mappings and   *)
(* lists only.                                                             *)
(***************************************************************************)
ViewModule == "ataxia"

ViewItem ==
    [moduleId |-> "ataxia", moduleTitle |-> "Ataxia",
     sectionTitle |-> "Genetics", keyPoint |-> "SCA1"]

\* What a view reads from the store for its state: getProgress(),
\* getFlags(), or isFlagged of the key point.
Read(h) ==
    IF h \in ProgressHooks \cup {"SlideViewer"} THEN getProgress
    ELSE IF h \in FlagHooks THEN getFlags
    ELSE isFlagged(ViewItem.moduleId, ViewItem.sectionTitle, ViewItem.keyPoint)

\* The step of view h that lastCall keeps.
ViewCall(op, h) == [op |-> op, args |-> <<h>>, ret |-> <<>>, before |-> <<>>]

\* No callback of a view is under way.
Idle == \A h \in Hooks : hooks[h].pc = "idle"

\* The first render and the mount effect, which reads the store.
Mount(h) ==
    /\ Idle
    /\ ~hooks[h].mounted
    /\ hooks' = [hooks EXCEPT ![h] = [Unmounted EXCEPT !.mounted = TRUE,
                                                       !.state = <<Read(h)>>]]
    /\ lastCall' = ViewCall("mount", h)
    /\ UNCHANGED <<localStorage, now, history, prevCall, window,
                   quotaExceeded, thrown, setItemCalls, components>>

Unmount(h) ==
    /\ Idle
    /\ hooks[h].mounted
    /\ hooks' = [hooks EXCEPT ![h] = Unmounted]
    /\ lastCall' = ViewCall("unmount", h)
    /\ UNCHANGED <<localStorage, now, history, prevCall, window,
                   quotaExceeded, thrown, setItemCalls, components>>

\* A slip of the wrappers: the state is set to what was read before the
\* store operation.
SetState_before(h) == hooks' = [hooks EXCEPT ![h].state = <<Read(h)>>]

\* setProgress(getProgress()) / setFlags(getFlags()) after the store
\* operation of the same handler.
SetState(h) == hooks' = [hooks EXCEPT ![h].state = <<Read(h)'>>]

\* A slip of useProgress().update: the partial is merged onto the snapshot
\* of the instance and the snapshot saved.
update_ontoSnapshot(h, moduleId, partial) ==
    LET progress == hooks[h].state[1]
        existing == IF moduleId \in DOMAIN progress
                    THEN progress[moduleId] ELSE defaultModuleProgress
    IN  /\ saveProgress(Assign(progress, moduleId, Spread(existing, partial)))
        /\ UNCHANGED <<now, history, prevCall, window, quotaExceeded,
                       components>>
        /\ SetState(h)

\* A slip of useProgress().update: the snapshot is not read again.
update_norefresh(h, moduleId, partial) ==
    /\ updateModuleProgress(moduleId, partial)
    /\ UNCHANGED <<now, history, prevCall, window, quotaExceeded, components>>
    /\ UNCHANGED hooks

\* useProgress().update: updateModuleProgress, then setProgress(getProgress()).
update(h, moduleId, partial) ==
    /\ updateModuleProgress(moduleId, partial)
    /\ UNCHANGED <<now, history, prevCall, window, quotaExceeded, components>>
    /\ SetState(h)

\* useFlags().toggle; setFlags is not reached when toggleFlag throws.
toggle(h, item) ==
    /\ toggleFlagWrites(item)
    /\ UNCHANGED <<now, history, prevCall, window, quotaExceeded, components>>
    /\ IF thrown' = "" THEN SetState(h) ELSE UNCHANGED hooks

\* useFlags().remove; setFlags is not reached when removeFlag throws.
remove(h, id) ==
    /\ removeFlag(id)
    /\ UNCHANGED <<now, history, prevCall, window, quotaExceeded, components>>
    /\ IF thrown' = "" THEN SetState(h) ELSE UNCHANGED hooks

\* ContentReader.handleComplete
HandleComplete ==
    /\ Idle
    /\ hooks["ContentReader"].mounted
    /\ update("ContentReader", ViewModule, ReaderComplete(ViewModule))
    /\ lastCall' = ViewCall("update", "ContentReader")

\* The IntersectionObserver callback of ContentReader for one entry, up to
\* the end of entries.forEach: an intersecting section is marked read and
\* the snapshot refreshed.
ObserverEntry(idx, isIntersecting) ==
    /\ Idle
    /\ hooks["ContentReader"].mounted
    /\ IF isIntersecting THEN markSectionRead(ViewModule, idx)
       ELSE UNCHANGED <<localStorage, thrown, setItemCalls>>
    /\ UNCHANGED <<now, history, prevCall, window, quotaExceeded, components>>
    /\ hooks' = [hooks EXCEPT
           !["ContentReader"].state =
               IF isIntersecting THEN <<getProgress'>> ELSE @,
           !["ContentReader"].visibleSet =
               IF isIntersecting THEN @ \cup {idx} ELSE @ \ {idx},
           !["ContentReader"].pc = "lastSection"]
    /\ lastCall' = ViewCall("observer", "ContentReader")

\* The rest of the callback: the least visible section is saved as
\* lastSection, by updateModuleProgress and with no refresh.
ObserverLastSection ==
    LET visibleSet == hooks["ContentReader"].visibleSet
        active     == CHOOSE a \in visibleSet : \A b \in visibleSet : a <= b
    IN  /\ hooks["ContentReader"].pc = "lastSection"
        /\ IF visibleSet # {}
           THEN updateModuleProgress(ViewModule, [lastSection |-> active])
           ELSE UNCHANGED <<localStorage, thrown, setItemCalls>>
        /\ hooks' = [hooks EXCEPT !["ContentReader"].pc = "idle"]
        /\ lastCall' = ViewCall("observer", "ContentReader")
        /\ UNCHANGED <<now, history, prevCall, window, quotaExceeded, components>>

\* FlaggableKeyPoint.handleToggle up to the return of toggleFlag;
\* setFlagged is not reached when toggleFlag throws.
HandleToggle ==
    /\ Idle
    /\ hooks["FlaggableKeyPoint"].mounted
    /\ toggleFlagWrites(ViewItem)
    /\ UNCHANGED <<now, history, prevCall, window, quotaExceeded, components>>
    /\ hooks' = [hooks EXCEPT !["FlaggableKeyPoint"].pc =
                     IF thrown' = "" THEN "setFlagged" ELSE "idle"]
    /\ lastCall' = ViewCall("handleToggle", "FlaggableKeyPoint")

\* The rest of handleToggle: setFlagged(isFlagged(...)).
HandleToggleSetFlagged ==
    /\ hooks["FlaggableKeyPoint"].pc = "setFlagged"
    /\ hooks' = [hooks EXCEPT
           !["FlaggableKeyPoint"].state = <<Read("FlaggableKeyPoint")>>,
           !["FlaggableKeyPoint"].pc = "idle"]
    /\ lastCall' = ViewCall("handleToggle", "FlaggableKeyPoint")
    /\ UNCHANGED <<localStorage, now, history, prevCall, window,
                   quotaExceeded, thrown, setItemCalls, components>>

\* The toggle wrapper of a useFlags instance.
Toggle(h) ==
    /\ Idle
    /\ hooks[h].mounted
    /\ toggle(h, ViewItem)
    /\ lastCall' = ViewCall("toggle", h)

\* The remove wrapper of a useFlags instance (ReviewPage's remove button).
Remove(h) ==
    /\ Idle
    /\ hooks[h].mounted
    /\ remove(h, ItemId(ViewItem))
    /\ lastCall' = ViewCall("remove", h)

\* Another tab marks a section read or toggles the flag.
OtherTab ==
    /\ Idle
    /\ \/ markSectionRead(ViewModule, 0)
       \/ toggleFlagWrites(ViewItem)
    /\ lastCall' = ViewCall("otherTab", "")
    /\ UNCHANGED <<now, history, prevCall, context>>

NextApp ==
    \/ \E h \in Hooks : Mount(h)
    \/ \E h \in Hooks : Unmount(h)
    \/ HandleComplete
    \/ \E isIntersecting \in BOOLEAN : ObserverEntry(0, isIntersecting)
    \/ ObserverLastSection
    \/ HandleToggle
    \/ HandleToggleSetFlagged
    \/ \E h \in FlagHooks : Toggle(h)
    \/ \E h \in FlagHooks : Remove(h)

\* This tab alone writes to the storage.
SpecApp == Init /\ [][NextApp]_vars

NextViews ==
    \/ NextApp
    \/ OtherTab

\* This tab and another tab write to the storage.
SpecViews == Init /\ [][NextViews]_vars

\* The snapshot of view h is what the store holds now.
Fresh(h) == hooks[h].state = <<Read(h)>>

(***************************************************************************)
(* C16: after a mutation issued through a hook wrapper                     *)
(* (useProgress().update, useFlags().toggle, useFlags().remove) returns,   *)
(* the snapshot of that hook instance equals the storage content the write *)
(* produced.                                                               *)
(***************************************************************************)
C16_WrapperSnapshotFresh ==
    \A h \in ProgressHooks \cup FlagHooks :
        (lastCall.op \in {"update", "toggle", "remove"} /\ lastCall.args = <<h>>)
            => Fresh(h)

\* ContentReader's update wrapper completed the module: its snapshot shows
\* the completion, while the ModuleTabs instance still holds the mapping
\* it read at its mount.
C16_Witness ==
    /\ lastCall = ViewCall("update", "ContentReader")
    /\ SlidesCompletedOf(ViewModule)
    /\ Fresh("ContentReader")
    /\ hooks["ModuleTabs"].mounted
    /\ hooks["ModuleTabs"].state = <<EmptyObject>>

(***************************************************************************)
(* C17: the in-memory mirror of the views is resynchronised after every    *)
(* write.  After any store write of the application, through a wrapper or  *)
(* by a view calling markSectionRead, updateModuleProgress or toggleFlag   *)
(* directly, the snapshot of every mounted view equals the storage         *)
(* content.                                                                *)
(***************************************************************************)
C17_MirrorsResynchronised ==
    Idle => \A h \in Hooks : hooks[h].mounted => Fresh(h)

SnapshotSectionsRead(progress, moduleId) ==
    IF moduleId \in DOMAIN progress
           /\ "sectionsRead" \in DOMAIN progress[moduleId]
    THEN progress[moduleId].sectionsRead ELSE <<>>

\* mp?.slidesCompleted ?? false
SnapshotSlidesCompleted(progress, moduleId) ==
    /\ moduleId \in DOMAIN progress
    /\ "slidesCompleted" \in DOMAIN progress[moduleId]
    /\ progress[moduleId].slidesCompleted

\* ModuleCard: sectionsProgress
sectionsProgress(progress, moduleId) ==
    LET sectionsCount == SectionsLength[moduleId]
    IN  IF SnapshotSlidesCompleted(progress, moduleId) THEN 100
        ELSE IF moduleId \in DOMAIN progress /\ sectionsCount > 0
        THEN Percent(Len(SnapshotSectionsRead(progress, moduleId)),
                     sectionsCount)
        ELSE 0

\* ModuleDetail: slideProgress
slideProgress(progress, moduleId) ==
    LET sectionCount == SectionsLength[moduleId]
    IN  IF SnapshotSlidesCompleted(progress, moduleId) THEN 100
        ELSE IF sectionCount > 0
        THEN Percent(Len(SnapshotSectionsRead(progress, moduleId)),
                     sectionCount)
        ELSE 0

\* SidebarNav: pct, of the sectionsRead that ContentReader passes to it
pct(progress, moduleId) ==
    Percent(Len(SnapshotSectionsRead(progress, moduleId)),
            SectionsLength[moduleId])

(***************************************************************************)
(* C20: every consumer treats a module whose slidesCompleted is true as    *)
(* 100% sections complete whatever sectionsRead holds: the percentage of   *)
(* getModuleSectionProgress, ModuleCard, ModuleDetail and the              *)
(* ContentReader sidebar is 100 for it.                                    *)
(***************************************************************************)
C20_CompletedShows100 ==
    \A m \in ModuleIds :
        SlidesCompletedOf(m) =>
            /\ getModuleSectionProgress(m, SectionsLength[m]) = 100
            /\ sectionsProgress(getProgress, m) = 100
            /\ slideProgress(getProgress, m) = 100
            /\ pct(getProgress, m) = 100


(***************************************************************************)
(* components/slide-presenter.tsx and components/slide-gallery.tsx: the    *)
(* manifest effect and the render guards.  A component is mounted for one  *)
(* module; its effect fetches /slides/<moduleId>/manifest.json and the     *)
(* chain fetch.then(r => r.ok ? r.json() : null).then(data => ...).catch   *)
(* runs one callback per step.  The `format` of a manifest, which only     *)
(* picks the extension of the image files, is left out.                    *)
(***************************************************************************)
\* The largest `count` of a manifest.
MaxCount == 2

ManifestFiles ==
    {AbsentFile, GarbledFile} \cup {ManifestJSON(c) : c \in 0..MaxCount}

\* `/slides/${moduleId}/slide-${n}.png`
SlideUrl(moduleId, n) == <<moduleId, n>>

\* Array.from({ length: count }, (_, i) => url of slide i + 1)
SlideUrls(moduleId, count) == [i \in 1..count |-> SlideUrl(moduleId, i)]

InitSlides ==
    /\ localStorage = EmptyStorage
    /\ now = 0
    /\ history = <<>>
    /\ lastCall = NoCall
    /\ prevCall = NoCall
    /\ window = "object"
    /\ quotaExceeded = FALSE
    /\ thrown = ""
    /\ setItemCalls = 0
    /\ hooks = [h \in Views |-> Unmounted]
    /\ manifests \in [ModuleIds -> ManifestFiles]
    /\ slideViews = [c \in SlideViews |-> NoSlideView]
    /\ quiz = NoQuiz
    /\ presenter = NoPresenter

SlideStep(c, view) ==
    /\ slideViews' = [slideViews EXCEPT ![c] = view]
    /\ UNCHANGED <<localStorage, now, history, lastCall, prevCall, window,
                   quotaExceeded, thrown, setItemCalls, hooks,
                   manifests, quiz, presenter>>

\* The component is rendered for a module: the first render and the effect,
\* which starts the fetch.
MountSlides(c, moduleId) ==
    /\ ~slideViews[c].mounted
    /\ SlideStep(c, [NoSlideView EXCEPT !.mounted = TRUE,
                                        !.moduleId = moduleId,
                                        !.promise = "fetch"])

\* The component goes away; what is left of its chain sets no state.
UnmountSlides(c) ==
    /\ slideViews[c].mounted
    /\ SlideStep(c, NoSlideView)

\* fetch(...) settles: a response, OK when the file exists, or a rejection
\* (network failure).
FetchSettles(c) ==
    /\ slideViews[c].promise = "fetch"
    /\ \/ SlideStep(c, [slideViews[c] EXCEPT
              !.promise = "response",
              !.ok = (manifests[slideViews[c].moduleId] # AbsentFile)])
       \/ SlideStep(c, [slideViews[c] EXCEPT !.promise = "rejected"])

\* .then((r) => (r.ok ? r.json() : null))
ThenResponse(c) ==
    /\ slideViews[c].promise = "response"
    /\ SlideStep(c, IF slideViews[c].ok
                    THEN [slideViews[c] EXCEPT !.promise = "json"]
                    ELSE [slideViews[c] EXCEPT !.promise = "data",
                                               !.data = NoManifest])

\* r.json() settles: the parsed body, or a rejection when the body is not
\* JSON or could not be read.
JsonSettles(c) ==
    /\ slideViews[c].promise = "json"
    /\ \/ /\ manifests[slideViews[c].moduleId] # GarbledFile
          /\ SlideStep(c, [slideViews[c] EXCEPT
                 !.promise = "data",
                 !.data = manifests[slideViews[c].moduleId]])
       \/ SlideStep(c, [slideViews[c] EXCEPT !.promise = "rejected"])

\* SlidePresenter: .then((data) => { if (data && data.count > 0)
\* setSlides(...); setLoaded(true); })
\* SlideGallery: .then((data) => { setManifest(data); setLoading(false); })
ThenData(c) ==
    /\ slideViews[c].promise = "data"
    /\ LET view == slideViews[c]
           data == view.data
       IN  SlideStep(c,
               IF c = "SlidePresenter"
               THEN [view EXCEPT
                        !.slides = IF data # NoManifest /\ data.count > 0
                                   THEN SlideUrls(view.moduleId, data.count)
                                   ELSE @,
                        !.loaded = TRUE,
                        !.promise = "settled"]
               ELSE [view EXCEPT !.manifest = data,
                                 !.loaded = TRUE,
                                 !.promise = "settled"])

\* The same chain with a catch that leaves the loading state alone.
Catch_silent(c) ==
    /\ slideViews[c].promise = "rejected"
    /\ SlideStep(c, [slideViews[c] EXCEPT !.promise = "settled"])

\* .catch(() => setLoaded(true)) / .catch(() => setLoading(false))
Catch(c) ==
    /\ slideViews[c].promise = "rejected"
    /\ SlideStep(c, [slideViews[c] EXCEPT !.loaded = TRUE,
                                          !.promise = "settled"])

\* What the component returns: the skeleton, the empty state, or the slides.
Render(c) ==
    LET view == slideViews[c]
    IN  IF ~view.loaded THEN "Skeleton"
        ELSE IF c = "SlidePresenter"
        THEN IF Len(view.slides) = 0 THEN "EmptyState" ELSE "Slides"
        ELSE IF view.manifest = NoManifest \/ view.manifest.count = 0
        THEN "EmptyState" ELSE "Slides"

\* The images the component shows.
Shown(c) ==
    IF Render(c) # "Slides" THEN <<>>
    ELSE IF c = "SlidePresenter" THEN slideViews[c].slides
    ELSE SlideUrls(slideViews[c].moduleId, slideViews[c].manifest.count)

NextSlides ==
    \/ \E c \in SlideViews, m \in ModuleIds : MountSlides(c, m)
    \/ \E c \in SlideViews : UnmountSlides(c)
    \/ \E c \in SlideViews : FetchSettles(c)
    \/ \E c \in SlideViews : ThenResponse(c)
    \/ \E c \in SlideViews : JsonSettles(c)
    \/ \E c \in SlideViews : ThenData(c)
    \/ \E c \in SlideViews : Catch(c)

\* The browser settles every fetch and body read, and runs the callbacks
\* of a settled promise.
SlidesFairness ==
    \A c \in SlideViews :
        /\ WF_vars(FetchSettles(c))
        /\ WF_vars(ThenResponse(c))
        /\ WF_vars(JsonSettles(c))
        /\ WF_vars(ThenData(c))
        /\ WF_vars(Catch(c))

SpecSlides == InitSlides /\ [][NextSlides]_vars /\ SlidesFairness

\* The manifest of the component's module gives no slide.
NoSlidesFor(c) ==
    LET file == manifests[slideViews[c].moduleId]
    IN  file.kind # "json" \/ file.count = 0

SlidesSafe ==
    \A c \in SlideViews :
        slideViews[c].mounted =>
            /\ Render(c) = "Slides" =>
                   /\ ~NoSlidesFor(c)
                   /\ Shown(c) = SlideUrls(slideViews[c].moduleId,
                          manifests[slideViews[c].moduleId].count)
            /\ slideViews[c].promise = "settled" => Render(c) # "Skeleton"

(***************************************************************************)
(* C21: the slide presenter and the gallery always leave the loading       *)
(* state and surface no error: when the manifest is missing, the fetch or  *)
(* the parse fails, or the manifest has count 0, a component that stays    *)
(* mounted eventually shows the "no slides" empty state, and a component   *)
(* shows slides only when the manifest of its module has count > 0.        *)
(***************************************************************************)
C21_SlidesDegradeToEmptyState ==
    /\ []SlidesSafe
    /\ \A c \in SlideViews :
           /\ slideViews[c].mounted
                  ~> (~slideViews[c].mounted \/ Render(c) # "Skeleton")
           /\ (slideViews[c].mounted /\ NoSlidesFor(c))
                  ~> (~slideViews[c].mounted \/ Render(c) = "EmptyState")
           /\ (slideViews[c].promise = "rejected")
                  ~> (~slideViews[c].mounted \/ Render(c) = "EmptyState")

\* The presenter shows the empty state after a failed parse while the
\* gallery shows the slides of a manifest.
C21_Witness ==
    /\ slideViews["SlidePresenter"].promise = "settled"
    /\ manifests[slideViews["SlidePresenter"].moduleId] = GarbledFile
    /\ Render("SlidePresenter") = "EmptyState"
    /\ slideViews["SlideGallery"].promise = "settled"
    /\ Render("SlideGallery") = "Slides"


(***************************************************************************)
(* C22: markSectionRead(m, i) with i already in the sectionsRead of m      *)
(* writes nothing: localStorage.setItem is not called, and the stored      *)
(* progress, with every field of m and of every other module, and the      *)
(* stored flags are what they were.                                        *)
(***************************************************************************)
C22_RepeatedMarkWritesNothing ==
    [][\A m \in ModuleIds, i \in Indices :
           (Includes(SectionsReadOf(m), i) /\ markSectionRead(m, i)) =>
               /\ setItemCalls' = 0
               /\ localStorage' = localStorage
               /\ getProgress' = getProgress]_vars

\* The last store operation called setItem not at all, with sections
\* recorded for one module and the other completed: a markSectionRead of a
\* recorded index.
C22_Witness ==
    /\ setItemCalls = 0
    /\ thrown = ""
    /\ SectionsReadOf("ataxia") = <<0, 1>>
    /\ SlidesCompletedOf("epilepsy")


(***************************************************************************)
(* C23: every module record in storage has its required fields defined.    *)
(* From empty storage, after any sequence of updateModuleProgress calls    *)
(* (with partials whose values are defined) and markSectionRead calls,     *)
(* each stored record has currentSlide, sectionsRead, slidesCompleted and  *)
(* quizCompleted.                                                          *)
(***************************************************************************)
C23_RequiredFieldsDefined ==
    \A m \in DOMAIN getProgress :
        {"currentSlide", "sectionsRead", "slidesCompleted", "quizCompleted"}
            \subseteq DOMAIN getProgress[m]

\* One record created by a lastSection update alone, the other by
\* markSectionRead and then a quiz result.
C23_Witness ==
    /\ DOMAIN getProgress = ModuleIds
    /\ DOMAIN getProgress["ataxia"] =
           DOMAIN defaultModuleProgress \cup {"lastSection"}
    /\ getProgress["epilepsy"].sectionsRead = <<0>>
    /\ getProgress["epilepsy"].quizCompleted
    /\ ~getProgress["epilepsy"].slidesCompleted


(***************************************************************************)
(* QuizComponent for the module ViewModule, and the other operations the   *)
(* views issue on the progress of that module.  A handler runs only while  *)
(* its button is rendered: the options and Next while the attempt is not   *)
(* finished, Retake on the result screen.  The snapshot of the component's *)
(* own useProgress instance is read by nothing and left out.               *)
(***************************************************************************)
\* module.quiz.length of ViewModule, and the options of a question.
MaxQuestions == 2

MaxOptions == 2

\* question.answer of each question of module.quiz.
QuizAnswers == [q \in 1..MaxQuestions |-> (q - 1) % MaxOptions]

Options == 0..(MaxOptions - 1)

\* newAnswers.filter(Boolean).length
CountTrue(answers) == Cardinality({j \in 1..Len(answers) : answers[j]})

QuizStep(op, next) ==
    /\ quiz' = next
    /\ lastCall' = ViewCall(op, "QuizComponent")
    /\ UNCHANGED <<now, history, prevCall, window, quotaExceeded, hooks,
                   manifests, slideViews, presenter>>

\* A handler that calls nothing of the store.
NoStoreCall == UNCHANGED <<localStorage, thrown, setItemCalls>>

MountQuiz ==
    /\ ~quiz.mounted
    /\ QuizStep("mount", [NoQuiz EXCEPT !.mounted = TRUE,
                                        !.lastFinished = quiz.lastFinished])
    /\ NoStoreCall

UnmountQuiz ==
    /\ quiz.mounted
    /\ QuizStep("unmount", [NoQuiz EXCEPT !.lastFinished = quiz.lastFinished])
    /\ NoStoreCall

\* handleSelect(index)
HandleSelect(index) ==
    /\ quiz.mounted /\ ~quiz.finished
    /\ QuizStep("handleSelect",
           IF quiz.state # "idle" THEN quiz
           ELSE [quiz EXCEPT
                    !.selected = <<index>>,
                    !.state = IF index = QuizAnswers[quiz.questionIndex + 1]
                              THEN "correct" ELSE "incorrect"])
    /\ NoStoreCall

\* A slip of handleNext: the score is counted before the last answer is
\* added.
handleNextScore_stale(answers, newAnswers) == CountTrue(answers)

\* const newScore = newAnswers.filter(Boolean).length
handleNextScore(answers, newAnswers) == CountTrue(newAnswers)

\* A slip of handleNext: the score so far is saved on every question.
HandleNext_eager ==
    LET isLast == quiz.questionIndex = MaxQuestions - 1
        correct == quiz.selected[1] = QuizAnswers[quiz.questionIndex + 1]
        newAnswers == Append(quiz.answers, correct)
        newScore == handleNextScore(quiz.answers, newAnswers)
        picked == Append(quiz.picked, quiz.selected[1])
    IN  /\ quiz.mounted /\ ~quiz.finished
        /\ IF quiz.selected = <<>>
           THEN QuizStep("handleNext", quiz) /\ NoStoreCall
           ELSE /\ QuizStep("handleNext",
                       IF isLast
                       THEN [quiz EXCEPT !.score = newScore,
                                         !.answers = newAnswers,
                                         !.finished = TRUE,
                                         !.picked = picked,
                                         !.updates = @ + 1,
                                         !.lastFinished = <<picked>>]
                       ELSE [quiz EXCEPT !.answers = newAnswers,
                                         !.questionIndex = @ + 1,
                                         !.selected = <<>>,
                                         !.state = "idle",
                                         !.picked = picked,
                                         !.updates = @ + 1])
                /\ updateModuleProgress(ViewModule,
                       [quizCompleted |-> isLast, quizScore |-> newScore])

\* handleNext
HandleNext ==
    LET isLast == quiz.questionIndex = MaxQuestions - 1
        correct == quiz.selected[1] = QuizAnswers[quiz.questionIndex + 1]
        newAnswers == Append(quiz.answers, correct)
        newScore == handleNextScore(quiz.answers, newAnswers)
        picked == Append(quiz.picked, quiz.selected[1])
    IN  /\ quiz.mounted /\ ~quiz.finished
        /\ IF quiz.selected = <<>>
           THEN QuizStep("handleNext", quiz) /\ NoStoreCall
           ELSE IF isLast
           THEN /\ QuizStep("handleNext",
                       [quiz EXCEPT !.score = newScore,
                                    !.answers = newAnswers,
                                    !.finished = TRUE,
                                    !.picked = picked,
                                    !.updates = @ + 1,
                                    !.lastFinished = <<picked>>])
                /\ updateModuleProgress(ViewModule,
                       [quizCompleted |-> TRUE, quizScore |-> newScore])
           ELSE /\ QuizStep("handleNext",
                       [quiz EXCEPT !.answers = newAnswers,
                                    !.questionIndex = @ + 1,
                                    !.selected = <<>>,
                                    !.state = "idle",
                                    !.picked = picked])
                /\ NoStoreCall

\* A slip of handleRetake: the stored quiz result is withdrawn.
HandleRetake_reset ==
    /\ quiz.mounted /\ quiz.finished
    /\ QuizStep("handleRetake",
           [NoQuiz EXCEPT !.mounted = TRUE,
                          !.lastFinished = quiz.lastFinished])
    /\ updateModuleProgress(ViewModule, [quizCompleted |-> FALSE])

\* handleRetake
HandleRetake ==
    /\ quiz.mounted /\ quiz.finished
    /\ QuizStep("handleRetake",
           [NoQuiz EXCEPT !.mounted = TRUE,
                          !.lastFinished = quiz.lastFinished])
    /\ NoStoreCall

\* What the other views of the module write: a section scrolled into view
\* and the last section viewed (ContentReader), the slide reached
\* (SlideViewer.goTo), and the two handleComplete updates.
ViewWrite ==
    /\ \/ markSectionRead(ViewModule, 0)
       \/ \E u \in Updates(ViewModule)
                      \cup {[currentSlide |-> 1], [lastSection |-> 0]} :
              updateModuleProgress(ViewModule, u)
    /\ lastCall' = ViewCall("write", "")
    /\ UNCHANGED <<now, history, prevCall, context>>

NextQuiz ==
    \/ MountQuiz
    \/ UnmountQuiz
    \/ \E index \in Options : HandleSelect(index)
    \/ HandleNext
    \/ HandleRetake
    \/ ViewWrite

SpecQuiz == Init /\ [][NextQuiz]_vars

\* The questions whose selected option is the answer, of the options
\* selected in an attempt.
CorrectPicks(picked) ==
    Cardinality({q \in 1..Len(picked) : picked[q] = QuizAnswers[q]})

(***************************************************************************)
(* C24: when a quiz attempt has finished, the stored record of the module  *)
(* has quizCompleted true and a quizScore that is the number of questions  *)
(* of the attempt finished last whose selected option is the question's    *)
(* answer index; so 0 <= quizScore <= the number of quiz questions.        *)
(***************************************************************************)
C24_QuizScoreIsCorrectCount ==
    /\ quiz.finished => quiz.lastFinished = <<quiz.picked>>
    /\ quiz.lastFinished # <<>> =>
           /\ HasRecord(ViewModule)
           /\ getProgress[ViewModule].quizCompleted
           /\ getProgress[ViewModule].quizScore
                  = CorrectPicks(quiz.lastFinished[1])
           /\ Len(quiz.lastFinished[1]) = MaxQuestions
           /\ getProgress[ViewModule].quizScore \in 0..MaxQuestions

\* A second attempt is under way after a first one with one answer right;
\* the module has been completed by the reader since.
C24_Witness ==
    /\ quiz.lastFinished = <<<<0, 0>>>>
    /\ ~quiz.finished
    /\ quiz.picked = <<1>>
    /\ SlidesCompletedOf(ViewModule)
    /\ getProgress[ViewModule].quizScore = 1


(***************************************************************************)
(* makeId on its own: one turn of its loop on sampled hashes and code      *)
(* units, its last line on sampled hashes, and the whole function on       *)
(* triples of strings.  lastCall keeps the call and prevCall the makeId    *)
(* call before it.                                                         *)
(***************************************************************************)
\* 16-bit words of the sampled hashes: 0, 1, 2^11 - 1, 2^11 (where h << 5
\* carries out of the word), 2^15 - 1, 2^15 (the sign bit), 2^16 - 1.
WordSamples == {0, 1, 2047, 2048, 32767, 32768, 65535}

HashSamples == [hi : WordSamples, lo : WordSamples]

\* UTF-16 code units: 0, "A", "|", and the largest.
CodeSamples == {0, 65, 124, 65535}

\* The strings of the triples.
IdModules == {"ataxia", "BB"}

SectionTitles == {"Genetics", "Aa"}

KeyPointTexts == {"Aa", "BB", "SCA1"}

PureCall(op, args, ret) ==
    /\ lastCall' = [op |-> op, args |-> args, ret |-> <<ret>>,
                    before |-> <<>>]
    /\ prevCall' = IF lastCall.op = "makeId" THEN lastCall ELSE prevCall
    /\ UNCHANGED <<localStorage, now, history, thrown, setItemCalls,
                   context>>

HashStepCall(hash, code) ==
    PureCall("hashStep", <<hash, code>>, HashStep(hash, code))

AbsToString36Call(hash) ==
    PureCall("absToString36", <<hash>>, AbsToString36(hash))

MakeIdCall(moduleId, sectionTitle, keyPoint) ==
    PureCall("makeId", <<moduleId, sectionTitle, keyPoint>>,
             makeId(moduleId, sectionTitle, keyPoint))

NextHash ==
    \/ \E hash \in HashSamples, code \in CodeSamples :
           HashStepCall(hash, code)
    \/ \E hash \in HashSamples : AbsToString36Call(hash)
    \/ \E m \in IdModules, t \in SectionTitles, k \in KeyPointTexts :
           MakeIdCall(m, t, k)

SpecHash == Init /\ [][NextHash]_vars

\* hash * 31 + code modulo 2^32, on the two words of the hash.
Times31Plus(hash, code) ==
    LET lo == hash.lo * 31 + code
    IN  [hi |-> (hash.hi * 31 + lo \div Word) % Word, lo |-> lo % Word]

\* The multiply-by-31-and-add hash of a string.
RECURSIVE Fold31(_, _, _)
Fold31(str, i, hash) ==
    IF i > Len(str) THEN hash
    ELSE Fold31(str, i + 1, Times31Plus(hash, str[i]))

\* A hash read as a signed 32-bit integer is negative.
Negative(hash) == hash.hi >= Word \div 2

\* The absolute value of the signed integer: for a negative hash, 2^32
\* minus the unsigned value.
Magnitude(hash) ==
    IF ~Negative(hash) THEN hash
    ELSE [hi |-> (Word - hash.hi - (IF hash.lo = 0 THEN 0 ELSE 1)) % Word,
          lo |-> (Word - hash.lo) % Word]

\* The number that base-36 digits write, most significant first.
RECURSIVE Value36(_, _)
Value36(digits, acc) ==
    IF digits = <<>> THEN acc
    ELSE LET lo == acc.lo * 36 + Head(digits)
         IN  Value36(Tail(digits),
                     [hi |-> acc.hi * 36 + lo \div Word, lo |-> lo % Word])

\* digits is the base-36 rendering of the absolute value of hash.
Renders(digits, hash) ==
    /\ Len(digits) >= 1
    /\ \A j \in 1..Len(digits) : digits[j] \in 0..35
    /\ Len(digits) > 1 => digits[1] # 0
    /\ Value36(digits, Int32Zero) = Magnitude(hash)

(***************************************************************************)
(* C25: the flag id is a deterministic function of (moduleId,              *)
(* sectionTitle, keyPoint).  One turn of the loop,                         *)
(* ((hash << 5) - hash + charCode) | 0, is hash * 31 + charCode reduced    *)
(* to 32 bits; the id is the base-36 rendering of the absolute value of    *)
(* that hash of moduleId||sectionTitle||keyPoint; and two calls with the   *)
(* same triple give the same id.                                           *)
(***************************************************************************)
C25_MakeIdIsHash31Base36 ==
    /\ lastCall.op = "hashStep" =>
           lastCall.ret[1] = Times31Plus(lastCall.args[1], lastCall.args[2])
    /\ lastCall.op = "absToString36" =>
           Renders(lastCall.ret[1], lastCall.args[1])
    /\ lastCall.op = "makeId" =>
           /\ Renders(lastCall.ret[1],
                      Fold31(IdString(lastCall.args[1], lastCall.args[2],
                                      lastCall.args[3]), 1, Int32Zero))
           /\ (prevCall.op = "makeId" /\ prevCall.args = lastCall.args) =>
                  prevCall.ret = lastCall.ret

\* makeId called twice with the same triple, whose hash is negative.
C25_Witness ==
    /\ lastCall.op = "makeId"
    /\ prevCall.op = "makeId"
    /\ prevCall.args = lastCall.args
    /\ Negative(Fold31(IdString(lastCall.args[1], lastCall.args[2],
                                lastCall.args[3]), 1, Int32Zero))


(***************************************************************************)
(* The progress store of Spec beside a flag list that a key point toggles. *)
(***************************************************************************)
FlagToggled ==
    /\ toggleFlagWrites(ViewItem)
    /\ UNCHANGED <<now, history, lastCall, prevCall, context>>

NextStore ==
    \/ Next
    \/ FlagToggled

SpecStore == Init /\ [][NextStore]_vars

\* The record of a module as a list, empty when there is none.
RecordOf(progress, moduleId) ==
    IF moduleId \in DOMAIN progress THEN <<progress[moduleId]>> ELSE <<>>

(***************************************************************************)
(* C26: updateModuleProgress(m, partial) and markSectionRead(m, i) change  *)
(* the record of m alone: the record of every other module is the same     *)
(* before and after the call, and the stored flag list is untouched.       *)
(***************************************************************************)
C26_OtherRecordsAndFlagsKept ==
    [][\A m \in ModuleIds :
           ((\E i \in Indices : markSectionRead(m, i))
                \/ (\E u \in Updates(m) : updateModuleProgress(m, u))) =>
               /\ \A other \in ModuleIds \ {m} :
                      RecordOf(getProgress', other)
                          = RecordOf(getProgress, other)
               /\ localStorage'[FLAGS_KEY] = localStorage[FLAGS_KEY]
               /\ getFlags' = getFlags]_vars

\* Both modules have a record written by different operations, and a flag
\* is stored.
C26_Witness ==
    /\ SectionsReadOf("ataxia") = <<1, 0>>
    /\ SlidesCompletedOf("epilepsy")
    /\ SectionsReadOf("epilepsy") = <<>>
    /\ Len(getFlags) = 1


(***************************************************************************)
(* components/slide-viewer.tsx beside another writer of the same module:   *)
(* a second view or another tab.  The viewer's `current` and sidebar state *)
(* are display state that no store call reads, and are left out.           *)
(***************************************************************************)
Max(a, b) == IF a >= b THEN a ELSE b

Min(a, b) == IF a <= b THEN a ELSE b

\* mp?.currentSlide ?? 0, of the viewer's snapshot.
SnapshotCurrentSlide(progress, moduleId) ==
    IF moduleId \in DOMAIN progress
           /\ "currentSlide" \in DOMAIN progress[moduleId]
    THEN progress[moduleId].currentSlide ELSE 0

\* The partial goTo(index) passes to update.
GoToPartial(index) ==
    LET next == Max(0, Min(index, SectionsLength[ViewModule] - 1))
        furthest == Max(SnapshotCurrentSlide(hooks["SlideViewer"].state[1],
                                             ViewModule), next)
    IN  [currentSlide |-> furthest]

\* A call of the viewer's update wrapper; lastCall keeps whether the
\* snapshot differed from the storage when the call was made.
ViewerUpdate(partial) ==
    /\ Idle
    /\ hooks["SlideViewer"].mounted
    /\ update("SlideViewer", ViewModule, partial)
    /\ lastCall' = [ViewCall("update", "SlideViewer") EXCEPT
                       !.ret = <<~Fresh("SlideViewer")>>]

\* SlideViewer.goTo
GoTo(index) == ViewerUpdate(GoToPartial(index))

\* SlideViewer.handleComplete
ViewerHandleComplete == ViewerUpdate(ViewerComplete(ViewModule))

\* What a second view or another tab writes to the module.
WriterPartials ==
    {ReaderComplete(ViewModule), [lastSection |-> 0], [currentSlide |-> 1],
     [quizCompleted |-> TRUE, quizScore |-> 1]}

OtherWriter ==
    /\ Idle
    /\ \/ markSectionRead(ViewModule, 0)
       \/ \E u \in WriterPartials : updateModuleProgress(ViewModule, u)
    /\ lastCall' = ViewCall("otherWriter", "")
    /\ UNCHANGED <<now, history, prevCall, context>>

NextWriters ==
    \/ Mount("SlideViewer")
    \/ Unmount("SlideViewer")
    \/ \E index \in Indices : GoTo(index)
    \/ ViewerHandleComplete
    \/ OtherWriter

SpecWriters == Init /\ [][NextWriters]_vars

\* The partials the viewer may pass in the current state.
ViewerPartials ==
    {GoToPartial(index) : index \in Indices} \cup {ViewerComplete(ViewModule)}

(***************************************************************************)
(* C27: a store write takes the storage read at the call, not the view's   *)
(* snapshot, as its base.  When another writer has changed fields of the   *)
(* module since the view loaded its snapshot, an update(m, partial) of the *)
(* view leaves every stored field that partial does not name as the other  *)
(* writer left it.                                                         *)
(***************************************************************************)
C27_UpdateMergesOntoStorage ==
    [][(hooks["SlideViewer"].mounted /\ HasRecord(ViewModule)) =>
           \A partial \in ViewerPartials :
               update("SlideViewer", ViewModule, partial) =>
                   /\ HasRecord(ViewModule)'
                   /\ \A f \in DOMAIN getProgress[ViewModule]
                                 \ DOMAIN partial :
                          /\ f \in DOMAIN getProgress'[ViewModule]
                          /\ getProgress'[ViewModule][f]
                                 = getProgress[ViewModule][f]]_vars

\* The viewer, mounted on empty storage, went to a slide after another
\* writer recorded a section, the last section and a quiz result: all of
\* them are in storage beside the viewer's currentSlide.
C27_Witness ==
    /\ lastCall = [ViewCall("update", "SlideViewer") EXCEPT !.ret = <<TRUE>>]
    /\ SectionsReadOf(ViewModule) = <<0>>
    /\ {"quizScore", "lastSection"} \subseteq DOMAIN getProgress[ViewModule]
    /\ getProgress[ViewModule].quizCompleted
    /\ getProgress[ViewModule].quizScore = 1
    /\ getProgress[ViewModule].lastSection = 0
    /\ getProgress[ViewModule].currentSlide = 0
    /\ ~SlidesCompletedOf(ViewModule)


QuizCompletedOf(moduleId) ==
    HasRecord(moduleId) /\ getProgress[moduleId].quizCompleted

(***************************************************************************)
(* C28: completion is monotone under the operations the views issue        *)
(* (markSectionRead, the lastSection updates, SlideViewer.goTo, the two    *)
(* handleComplete actions, the end of a quiz and Retake): once             *)
(* slidesCompleted is true for a module it stays true, and so does         *)
(* quizCompleted.                                                          *)
(***************************************************************************)
C28_CompletionMonotone ==
    [][/\ SlidesCompletedOf(ViewModule) => SlidesCompletedOf(ViewModule)'
       /\ QuizCompletedOf(ViewModule) => QuizCompletedOf(ViewModule)']_vars

\* Slides and quiz completed, then Retake and a first answer of the new
\* attempt, with the other views' writes in the record.
C28_Witness ==
    /\ SlidesCompletedOf(ViewModule)
    /\ QuizCompletedOf(ViewModule)
    /\ quiz.lastFinished # <<>>
    /\ ~quiz.finished
    /\ quiz.questionIndex = 1
    /\ "lastSection" \in DOMAIN getProgress[ViewModule]
    /\ getProgress[ViewModule].currentSlide = 1


\* The stored quiz result of a module, as a list of the fields present.
QuizResultOf(moduleId) ==
    IF ~HasRecord(moduleId) THEN <<>>
    ELSE <<getProgress[moduleId].quizCompleted,
           IF "quizScore" \in DOMAIN getProgress[moduleId]
           THEN <<getProgress[moduleId].quizScore>> ELSE <<>> >>

\* The step called nothing of the store.
StoreUntouched ==
    /\ localStorage' = localStorage
    /\ setItemCalls' = setItemCalls

(***************************************************************************)
(* C29: within one quiz attempt the progress store is written exactly      *)
(* once, by the handleNext that advances past the last question, and only  *)
(* when an option is selected.  handleSelect is ignored once the current   *)
(* question is answered; handleNext on another question and Retake write   *)
(* nothing; Retake leaves the stored quizCompleted and quizScore as they    *)
(* were.                                                                   *)
(***************************************************************************)
C29_OneWritePerAttempt ==
    [][/\ quiz'.mounted => quiz'.updates = (IF quiz'.finished THEN 1 ELSE 0)
       /\ \A index \in Options :
              HandleSelect(index) =>
                  /\ StoreUntouched
                  /\ quiz.state # "idle" => quiz' = quiz
       /\ HandleNext =>
              IF quiz.questionIndex = MaxQuestions - 1 /\ quiz.selected # <<>>
              THEN /\ setItemCalls' = 1
                   /\ quiz'.finished
                   /\ QuizCompletedOf(ViewModule)'
              ELSE /\ StoreUntouched
                   /\ ~quiz'.finished
       /\ HandleRetake =>
              /\ StoreUntouched
              /\ QuizResultOf(ViewModule)' = QuizResultOf(ViewModule)
              /\ ~quiz'.finished]_vars

\* A second attempt has passed its first question after a finished first
\* attempt and Retake: the store was written once, by the first attempt.
C29_Witness ==
    /\ quiz.mounted
    /\ quiz.lastFinished = <<<<0, 1>>>>
    /\ quiz.questionIndex = 1
    /\ quiz.selected = <<0>>
    /\ quiz.updates = 0
    /\ QuizResultOf(ViewModule) = <<TRUE, <<2>> >>
    /\ lastCall = ViewCall("handleSelect", "QuizComponent")


(***************************************************************************)
(* components/slide-presenter.tsx: navigation, for a presenter that has    *)
(* loaded a manifest with slides.  goTo hides the slide and sets a timer   *)
(* of 140 ms that sets `current`; the timers fire in the order they were   *)
(* set.  While autoplay is on, an interval advances `current`.  A handler  *)
(* runs with the `current` of the latest render.  autoplaySpeed, which     *)
(* sets the period of the interval only, and the scrolling of the          *)
(* thumbnail strip are left out.                                           *)
(***************************************************************************)
\* The largest number of slides, and of goTo timers pending at a time.
MaxSlides == 3

MaxTimers == 2

InitPresenter ==
    /\ localStorage = EmptyStorage
    /\ now = 0
    /\ history = <<>>
    /\ lastCall = NoCall
    /\ prevCall = NoCall
    /\ window = "object"
    /\ quotaExceeded = FALSE
    /\ thrown = ""
    /\ setItemCalls = 0
    /\ hooks = [h \in Views |-> Unmounted]
    /\ quiz = NoQuiz
    /\ presenter = NoPresenter
    /\ \E count \in 1..MaxSlides :
           /\ manifests = [m \in ModuleIds |->
                  IF m = ViewModule THEN ManifestJSON(count) ELSE AbsentFile]
           /\ slideViews =
                  [c \in SlideViews |->
                      IF c = "SlidePresenter"
                      THEN [NoSlideView EXCEPT
                               !.mounted = TRUE,
                               !.moduleId = ViewModule,
                               !.promise = "settled",
                               !.ok = TRUE,
                               !.data = ManifestJSON(count),
                               !.loaded = TRUE,
                               !.slides = SlideUrls(ViewModule, count)]
                      ELSE NoSlideView]

\* slides.length
SlidesLength == Len(slideViews["SlidePresenter"].slides)

PresenterStep(op, next) ==
    /\ presenter' = next
    /\ lastCall' = ViewCall(op, "SlidePresenter")
    /\ UNCHANGED <<localStorage, now, history, prevCall, window,
                   quotaExceeded, thrown, setItemCalls, hooks, manifests,
                   slideViews, quiz>>

\* A slip of goTo: the index is taken as it comes.
goTo_unclamped(idx) ==
    IF SlidesLength = 0 THEN presenter
    ELSE IF idx = presenter.current THEN presenter
    ELSE [presenter EXCEPT !.visible = FALSE, !.timers = Append(@, idx)]

\* goTo(idx), up to the call of setTimeout.
goTo(idx) ==
    LET target == Max(0, Min(idx, SlidesLength - 1))
    IN  IF SlidesLength = 0 THEN presenter
        ELSE IF target = presenter.current THEN presenter
        ELSE [presenter EXCEPT !.visible = FALSE,
                               !.timers = Append(@, target)]

\* next()
next ==
    goTo(IF presenter.current < SlidesLength - 1
         THEN presenter.current + 1 ELSE presenter.current)

\* prev()
prev == goTo(IF presenter.current > 0 THEN presenter.current - 1 ELSE 0)

\* A thumbnail is clicked.
PresenterGoTo(idx) ==
    /\ Len(presenter.timers) < MaxTimers
    /\ PresenterStep("goTo", goTo(idx))

\* The slide or the Next button is clicked, or ArrowRight pressed.
PresenterNext ==
    /\ Len(presenter.timers) < MaxTimers
    /\ PresenterStep("next", next)

\* The Previous button is clicked, or ArrowLeft pressed.
PresenterPrev ==
    /\ Len(presenter.timers) < MaxTimers
    /\ PresenterStep("prev", prev)

\* The callback of the oldest goTo timer: setCurrent(target),
\* setVisible(true).
GoToTimer ==
    /\ presenter.timers # <<>>
    /\ PresenterStep("timer",
           [presenter EXCEPT !.current = Head(presenter.timers),
                             !.visible = TRUE,
                             !.timers = Tail(@)])

\* The autoplay button or the space key: setAutoplay((a) => !a); the
\* effect sets or clears the interval.
ToggleAutoplay ==
    PresenterStep("autoplay", [presenter EXCEPT !.autoplay = ~@])

\* The callback of the interval:
\* setCurrent((c) => c < slides.length - 1 ? c + 1 : 0)
AutoplayTick ==
    /\ presenter.autoplay /\ SlidesLength # 0
    /\ PresenterStep("tick",
           [presenter EXCEPT !.current =
                IF @ < SlidesLength - 1 THEN @ + 1 ELSE 0])

NextPresenter ==
    \/ \E idx \in (0 - 1)..MaxSlides : PresenterGoTo(idx)
    \/ PresenterNext
    \/ PresenterPrev
    \/ GoToTimer
    \/ ToggleAutoplay
    \/ AutoplayTick

SpecPresenter == InitPresenter /\ [][NextPresenter]_vars

\* `current` and the targets of the pending timers are indices of slides.
CurrentInRange ==
    /\ presenter.current \in 0..(SlidesLength - 1)
    /\ \A j \in 1..Len(presenter.timers) :
           presenter.timers[j] \in 0..(SlidesLength - 1)

(***************************************************************************)
(* C30: in the slide presenter with a non-empty slide list,                *)
(* 0 <= current < slides.length in every reachable state, under any        *)
(* interleaving of goTo, next, prev, the goTo timers and the autoplay      *)
(* ticks.  A manual next on the last slide leaves the presenter there,     *)
(* while an autoplay tick on the last slide goes to index 0.               *)
(***************************************************************************)
C30_CurrentIndexInRange ==
    /\ []CurrentInRange
    /\ [][/\ (PresenterNext /\ presenter.current = SlidesLength - 1) =>
                 presenter' = presenter
          /\ (PresenterNext /\ presenter.current < SlidesLength - 1) =>
                 presenter'.timers
                     = Append(presenter.timers, presenter.current + 1)
          /\ (AutoplayTick /\ presenter.current = SlidesLength - 1) =>
                 presenter'.current = 0]_vars

\* Three slides: a goTo of the last slide is pending while an autoplay tick
\* has taken the presenter from the last slide to the first.
C30_Witness ==
    /\ SlidesLength = 3
    /\ lastCall = ViewCall("tick", "SlidePresenter")
    /\ presenter.current = 0
    /\ presenter.timers = <<2>>
    /\ ~presenter.visible

====
